---- MODULE Spec2Model ----
(***************************************************************************)
(* SnapTrade credential lifecycle and data synchronisation                 *)
(* (utils/snaptrade.ts, utils/snaptrade-sdk.ts and the api/snaptrade       *)
(* routes).                                                                *)
(*                                                                         *)
(* One user ("u1") and one broker ("snaptrade"): the Credential Store is    *)
(* the single broker_connections row of that pair.  Every async function   *)
(* is cut at its awaits: a label names the awaited store or remote call,   *)
(* and one action performs that call together with the synchronous code    *)
(* that follows it up to the next await.  Calls of the store whose result  *)
(* the code never inspects (upsert/update without reading `error`) are     *)
(* modelled as taking effect; a store error is modelled where the code     *)
(* branches on it.                                                         *)
(***************************************************************************)
EXTENDS Integers, Sequences, FiniteSets, TLC

VARIABLES
  sdk,        \* snaptrade-sdk.ts: the exported client is non-null
  conc,       \* requests of the same user may overlap (fixed by Init)
  budget,     \* top-level calls explored in one behaviour (fixed by Init)
  assets,     \* rows of the assets table the callback has inserted
  clock,      \* Date.now(), in half days
  stamps,     \* the latest value Date.now() gave (-1 before its first read)
  row,        \* broker_connections row of (u1, "snaptrade")
  remote,     \* identities registered at SnapTrade, with their secrets
  issued,     \* number of secrets SnapTrade has issued
  calls,      \* number of top-level calls started
  pc,         \* per request: the await it is suspended at
  stack,      \* per request: the callers awaiting the running function
  loc         \* per request: local variables and the call's history

vars == <<sdk, conc, budget, assets, clock, stamps, row, remote, issued, calls, pc, stack, loc>>

----------------------------------------------------------------------------
(* Bounds *)

MaxClock   == 16   \* half days the clock may reach (8 days = 16)
MaxIssued  == 3    \* secrets the remote issues at most
MaxCalls   == 3    \* top-level calls in one behaviour
MaxStoreCalls == 3  \* top-level calls in one behaviour of SpecStore
MaxAssetCalls == 2  \* top-level calls in one behaviour of SpecAssets
MaxEndpointCalls == 2  \* requests in one behaviour of SpecEndpoints
MaxLinkCalls == 1   \* top-level calls in one behaviour of SpecLink
MaxRetries == 2     \* re-invocations of createSnapTradeUserLink explored
MaxCallsConc == 2  \* top-level calls in one behaviour with overlap
NumProcs   == 2    \* requests in progress at the same time

(* Program constants *)

HalfDaysPerDay == 2    \* the clock's unit against 1000*60*60*24 ms
RefreshDays    == 7    \* daysSinceRegistration > 7

Procs == 1..NumProcs
\* time that passes between two requests: 7 days, 7 days 12 hours, 8 days
TickSteps == {14, 15, 16}

----------------------------------------------------------------------------
(* Values *)

NoTime == -1

UserId == [base |-> "u1", sfx |-> NoTime]
NoId   == [base |-> "none", sfx |-> NoTime]
\* `${userId}_${Date.now()}`, n the value Date.now() gave
ModifiedUserId(n) == [base |-> "u1", sfx |-> n]

NoSecret      == [k |-> "none", n |-> 0]
\* "pending_registration"
Placeholder   == [k |-> "pending_registration", n |-> 0]
\* userSecret of a register reply
RealSecret(n) == [k |-> "real", n |-> n]
\* `fake_secret_${Date.now()}`
FakeSecret(n) == [k |-> "fake_secret", n |-> n]
\* `emergency_fallback_${Date.now()}`
EmergencySecret(n) == [k |-> "emergency_fallback", n |-> n]

\* JavaScript truthiness of a stored api_secret_encrypted
Truthy(s) == s.k # "none"

EmptyData ==
  [ registration_started_at |-> NoTime,
    registered_at           |-> NoTime,
    registration_failed_at  |-> NoTime,
    snap_trade_user_id      |-> NoId,
    original_user_id        |-> NoId,
    registration_method     |-> "none",
    is_fake_secret          |-> FALSE,
    error_message           |-> "none",
    original_error          |-> "none",
    connection_started      |-> NoTime,
    broker_id               |-> << >>,
    connected_at            |-> NoTime,
    brokerage               |-> "none",
    authorization_id        |-> "none",
    disconnected_at         |-> NoTime,
    deleted_at              |-> NoTime,
    user_deleted            |-> FALSE ]

NoRow == [present |-> FALSE, secret |-> NoSecret, active |-> FALSE,
          data |-> EmptyData]

Row(s, a, d) == [present |-> TRUE, secret |-> s, active |-> a, data |-> d]

\* .update(...).eq(user_id).eq(broker_id): changes the row only if it exists
Update(r, s, a, d) == IF r.present THEN Row(s, a, d) ELSE r

\* .select(...).eq("is_active", true).maybeSingle()
SelectActive(r) == IF r.present /\ r.active THEN r ELSE NoRow

NoLoc ==
  [ op        |-> "none",
    force     |-> FALSE,
    data      |-> NoRow,       \* getUserSecret: `data`
    regError  |-> "none",      \* the caught registerError / regError
    response  |-> NoSecret,    \* register reply: data.userSecret
    modId     |-> NoId,        \* registerSnapTradeUser: modifiedUserId
    fakeSecret |-> NoSecret,   \* the `fakeSecret` of either fallback
    userSecret |-> NoSecret,   \* the callers' `userSecret`
    existingBrokerData |-> EmptyData, \* the broker_data read to be spread
    selected  |-> TRUE,        \* history: the select of that broker_data
                               \* answered without an error
    authorizationId |-> "none", \* deleteConnection, handleCallback
    brokerage |-> "none",      \* handleSnapTradeCallback: `brokerage`
    brokerId  |-> [k |-> "undefined", s |-> << >>],
                               \* createSnapTradeUserLink: `brokerId`
    broker    |-> [passed |-> FALSE, broker |-> << >>],
                               \* history: the broker parameter of the login
    depth     |-> 0,           \* createSnapTradeUserLink: re-invocations so far
    login     |-> "none",      \* history: what the last login answered
    url       |-> "none",      \* redirectURI returned by createLink
    overlap   |-> FALSE,       \* history: another request was in progress
                               \* when this one started
    status    |-> 0,           \* HTTP status an endpoint answers
    noStore   |-> FALSE,       \* the response has the Cache-Control headers
    body      |-> [userId |-> NoId], \* the data of the register response
    given     |-> FALSE,       \* history: the request named a userId
    auth      |-> "none",      \* history: what supabase.auth.getUser gave
    success   |-> FALSE,       \* sync response: `success`
    syncStatus |-> "none",     \* sync response: `syncStatus`
    syncAccounts |-> << >>,    \* sync response: `accounts`
    accountsRaised |-> FALSE,  \* history: fetchSnapTradeAccounts raised
    holdingsRaised |-> FALSE,  \* history: fetchSnapTradeHoldings raised
    inserted  |-> 0,           \* history: Asset rows this call inserted
    pending   |-> << >>,       \* handleSnapTradeCallback: the rows of the
                               \* reply that are still to be inserted
    remotes   |-> << >>,       \* history: remote calls other than register
    accountId |-> "none",      \* fetchSnapTradeHoldings: `accountId`
    accounts  |-> << >>,       \* accountsToProcess
    i         |-> 0,           \* index of the account being processed
    holdings  |-> << >>,       \* fetchSnapTradeHoldings: `holdings`
    listed    |-> "none",      \* history: outcome of listUserAccounts
    pos       |-> << >>,       \* history: outcome of each positions call
    bal       |-> << >>,       \* history: outcome of each balances call
    result    |-> NoSecret,    \* value returned to the top-level caller
    outcome   |-> "none",      \* "returned" or "threw"
    error     |-> "none",      \* the error thrown to the top-level caller
    startRow  |-> NoRow,       \* history: the row when the call started
                               \* (kept for requests served one after
                               \* the other)
    startAssets |-> 0,         \* history: Asset rows when the call started
    readOk    |-> FALSE,       \* history: getUserSecret's read succeeded
    entered   |-> FALSE,       \* history: registerSnapTradeUser was called
    regs      |-> 0,           \* history: remote register calls made by
                               \* the last registerSnapTradeUser call
    writes    |-> 0,           \* history: store writes made
    path      |-> << >> ]      \* history: stages of registerSnapTradeUser

----------------------------------------------------------------------------
(* getUserSecret: the synchronous decisions *)

\* mutant: the stored secret is used whether or not the row is active
ValidCredentials_AnyRow(d) ==
  d.present /\ Truthy(d.secret) /\ d.secret # Placeholder

\* data && data.is_active && data.api_secret_encrypted &&
\* data.api_secret_encrypted !== "pending_registration"
ValidCredentials(d) ==
  d.present /\ d.active /\ Truthy(d.secret) /\ d.secret # Placeholder

\* Math.floor((now - registrationDate) / (1000*60*60*24))
DaysSinceRegistration(now, registeredAt) ==
  (now - registeredAt) \div HalfDaysPerDay

\* registeredAt ? daysSinceRegistration > 7 : true
NeedsRefresh(now, registeredAt) ==
  IF registeredAt # NoTime
  THEN DaysSinceRegistration(now, registeredAt) > RefreshDays
  ELSE TRUE

\* mutant: the age check is applied to fallback secrets as well
ReturnsStored_AgeChecked(d, force, now) ==
  /\ ValidCredentials(d)
  /\ ~NeedsRefresh(now, d.data.registered_at) /\ ~force

\* lines 451-485: the stored secret is returned without registering
ReturnsStored(d, force, now) ==
  /\ ValidCredentials(d)
  /\ IF d.data.is_fake_secret
     THEN ~force
     ELSE ~NeedsRefresh(now, d.data.registered_at) /\ ~force

----------------------------------------------------------------------------
(* Holdings *)

\* a JavaScript number: a finite ratio, Infinity, -Infinity or NaN
Num(n)  == [k |-> "num", n |-> n, d |-> 1]
\* bookValue / quantity
JsDiv(a, b) ==
  IF b # 0 THEN [k |-> "num", n |-> a, d |-> b]
  ELSE IF a = 0 THEN [k |-> "NaN", n |-> 0, d |-> 0]
  ELSE IF a > 0 THEN [k |-> "Infinity", n |-> 0, d |-> 0]
  ELSE [k |-> "-Infinity", n |-> 0, d |-> 0]

\* what the remote holds: the user's accounts, their positions and balances
AccountIds == <<"a1", "a2">>
\* the orders in which listUserAccounts may list them
AccountOrders == {<<"a1", "a2">>, <<"a2", "a1">>}

PositionsOf(a) ==
  IF a = "a1"
  THEN << [symbol |-> "AAPL", quantity |-> 2, price |-> 3, bookValue |-> 4],
          [symbol |-> "",     quantity |-> 1, price |-> 1, bookValue |-> 1] >>
  ELSE << [symbol |-> "TSLA", quantity |-> 0, price |-> 5, bookValue |-> 6],
          [symbol |-> "MSFT", quantity |-> 0, price |-> 2, bookValue |-> -6] >>

BalancesOf(a) ==
  IF a = "a1"
  THEN << [cash |-> TRUE,  type |-> "CASH",   amount |-> 7],
          [cash |-> FALSE, type |-> "MARGIN", amount |-> 8],
          [cash |-> FALSE, type |-> "CASH",   amount |-> 5] >>
  ELSE << [cash |-> TRUE,  type |-> "CASH",   amount |-> 0],
          [cash |-> TRUE,  type |-> "CASH",   amount |-> -1],
          [cash |-> FALSE, type |-> "MARGIN", amount |-> 9] >>

\* lines 919-941 (the display fields name, accountName, brokerName and
\* currency are left out)
PositionHolding(position, account) ==
  LET quantity   == position.quantity
      price      == position.price
      bookValue  == position.bookValue
      totalValue == quantity * price
  IN [ symbol        |-> position.symbol,
       quantity      |-> quantity,
       pricePerShare |-> price,
       totalValue    |-> totalValue,
       gainLoss      |-> totalValue - bookValue,
       purchasePrice |-> JsDiv(bookValue, quantity),
       accountId     |-> account,
       isPending     |-> FALSE,
       isError       |-> FALSE,
       errorMessage  |-> "none" ]

IsCashBalance_AnyPositive(balance) == balance.amount > 0

\* lines 958-972
IsCashBalance(balance) == balance.cash /\ balance.amount > 0

CashHolding(balance, account) ==
  [ symbol        |-> "CASH",
    quantity      |-> 1,
    pricePerShare |-> balance.amount,
    totalValue    |-> balance.amount,
    gainLoss      |-> 0,
    purchasePrice |-> Num(balance.amount),
    accountId     |-> account,
    isPending     |-> FALSE,
    isError       |-> FALSE,
    errorMessage  |-> "none" ]

PendingHolding_NoAccount(account) ==
  [ symbol        |-> "PENDING",
    quantity      |-> 0,
    pricePerShare |-> 0,
    totalValue    |-> 0,
    gainLoss      |-> 0,
    purchasePrice |-> Num(0),
    accountId     |-> "none",
    isPending     |-> TRUE,
    isError       |-> FALSE,
    errorMessage  |-> "none" ]

\* lines 992-1005
PendingHolding(account) ==
  [ symbol        |-> "PENDING",
    quantity      |-> 0,
    pricePerShare |-> 0,
    totalValue    |-> 0,
    gainLoss      |-> 0,
    purchasePrice |-> Num(0),
    accountId     |-> account,
    isPending     |-> TRUE,
    isError       |-> FALSE,
    errorMessage  |-> "none" ]

ErrorHolding_NotFlagged(message) ==
  [ symbol        |-> "ERROR",
    quantity      |-> 0,
    pricePerShare |-> 0,
    totalValue    |-> 0,
    gainLoss      |-> 0,
    purchasePrice |-> Num(0),
    accountId     |-> "error",
    isPending     |-> FALSE,
    isError       |-> FALSE,
    errorMessage  |-> message ]

\* lines 1020-1036
ErrorHolding(message) ==
  [ symbol        |-> "ERROR",
    quantity      |-> 0,
    pricePerShare |-> 0,
    totalValue    |-> 0,
    gainLoss      |-> 0,
    purchasePrice |-> Num(0),
    accountId     |-> "error",
    isPending     |-> FALSE,
    isError       |-> TRUE,
    errorMessage  |-> message ]

RECURSIVE MapPositions(_, _)
MapPositions(ps, account) ==
  IF ps = << >> THEN << >>
  ELSE <<PositionHolding(Head(ps), account)>> \o MapPositions(Tail(ps), account)

RECURSIVE CashHoldings(_, _)
CashHoldings(bs, account) ==
  IF bs = << >> THEN << >>
  ELSE (IF IsCashBalance(Head(bs))
        THEN <<CashHolding(Head(bs), account)>> ELSE << >>)
       \o CashHoldings(Tail(bs), account)

\* accountsResponse.data.filter((acc) => acc.id === accountId)
RECURSIVE FilterAccounts(_, _)
FilterAccounts(as, accountId) ==
  IF as = << >> THEN << >>
  ELSE (IF Head(as) = accountId THEN <<Head(as)>> ELSE << >>)
       \o FilterAccounts(Tail(as), accountId)

----------------------------------------------------------------------------
(* Returning and throwing through the awaiting callers *)

\* r = [kind |-> "value" | "throw", secret, err]
Value(s)  == [kind |-> "value", secret |-> s, err |-> "none"]
Throw(e)  == [kind |-> "throw", secret |-> NoSecret, err |-> e]

ExistingCredentials_AnySecret(d) == d.present /\ Truthy(d.secret)

\* lines 499-504: the catch of getUserSecret has credentials to fall back on
ExistingCredentials(d) ==
  d.present /\ d.active /\ Truthy(d.secret) /\ d.secret # Placeholder

\* line 777: regError.response?.status === 400 || regError.status === 400
\* (the errors are told apart by their message)
HasStatus400(message) == message = "Request failed with status code 400"

\* lines 817-819
RegisterFailure(message) == "Failed to register user: " \o message

LinkError_Bare(message) == message

\* mutant: the reply of registerSnapTradeUser is passed on whole
RegisterResponse_Whole(userId, userSecret) ==
  [userId |-> userId, userSecret |-> userSecret]

\* register/route.ts lines 42-43: { success: true, userId: snapTradeUser.userId }
\* (success is kept apart)
RegisterResponse(userId, userSecret) == [userId |-> userId]

\* headers: {"Cache-Control": "no-store, max-age=0, must-revalidate", ...}
WithHeaders(l) == [l EXCEPT !.noStore = TRUE]

SyncStatusOnError_Kept(syncStatus) == syncStatus

\* sync/route.ts lines 48 and 59: syncStatus = "partial"
SyncStatusOnError(syncStatus) == "partial"

\* lines 826-838: the outer catch of createSnapTradeUserLink wraps the error
LinkError(message) == "Failed to link account: " \o message

\* The state a request is in after the running function hands r to the
\* callers in stk (innermost caller last).
RECURSIVE Unwind(_, _, _)

HoldingsFailure_Rethrow(stk, err, l) ==
  Unwind(stk, Throw(err), l)

\* lines 1017-1037: an error raised inside the try of fetchSnapTradeHoldings
\* is caught and the callers in stk are handed the one-element sentinel list
HoldingsFailure(stk, err, l) ==
  Unwind(stk, Value(NoSecret), [l EXCEPT !.holdings = <<ErrorHolding(err)>>])

Unwind(stk, r, l) ==
  IF stk = << >>
  THEN [ pc    |-> "done",
         stack |-> << >>,
         loc   |-> [l EXCEPT !.outcome = IF r.kind = "value"
                                         THEN "returned" ELSE "threw",
                             !.result  = r.secret,
                             !.error   = r.err] ]
  ELSE LET f    == stk[Len(stk)]
           rest == SubSeq(stk, 1, Len(stk) - 1)
       IN CASE f = "getUserSecret" ->
                 \* lines 488-530
                 IF r.kind = "value"
                 THEN Unwind(rest, r, l)
                 ELSE IF ExistingCredentials(l.data)
                      THEN Unwind(rest, Value(l.data.secret),
                                  [l EXCEPT !.regError = r.err])
                      ELSE [ pc    |-> "gs_fallback",
                             stack |-> rest,
                             loc   |-> [l EXCEPT !.regError = r.err] ]
            [] f = "fetchHoldings" ->
                 \* lines 886-888 and the catch of lines 1017-1037
                 IF r.kind = "value"
                 THEN [ pc    |-> "fh_list",
                        stack |-> rest,
                        loc   |-> [l EXCEPT !.userSecret = r.secret,
                                            !.holdings = << >>] ]
                 ELSE HoldingsFailure(rest, r.err, l)
            [] f = "deleteConnection" ->
                 \* lines 551-552 and the catch of lines 649-652
                 IF r.kind = "value"
                 THEN [ pc    |-> "dc_list",
                        stack |-> rest,
                        loc   |-> [l EXCEPT !.userSecret = r.secret] ]
                 ELSE Unwind(rest, r, l)
            [] f = "handleCallback" ->
                 \* lines 1057-1058 and the catch of lines 1260-1263
                 IF r.kind = "value"
                 THEN [ pc    |-> "cb_read",
                        stack |-> rest,
                        loc   |-> [l EXCEPT !.userSecret = r.secret] ]
                 ELSE Unwind(rest, r, l)
            [] f = "createLink" ->
                 \* lines 677-678 and the catches of lines 766-838
                 IF r.kind = "value"
                 THEN [ pc    |-> "cl_login",
                        stack |-> rest,
                        loc   |-> [l EXCEPT !.userSecret = r.secret] ]
                 ELSE Unwind(rest, Throw(LinkError(r.err)), l)
            [] f = "registerEndpoint" ->
                 \* POST, lines 39-68
                 IF r.kind = "value"
                 THEN Unwind(rest, Value(NoSecret),
                             WithHeaders([l EXCEPT
                                            !.status = 200,
                                            !.success = TRUE,
                                            !.userSecret = r.secret,
                                            !.body = RegisterResponse(
                                                       UserId, r.secret)]))
                 ELSE Unwind(rest, Value(NoSecret),
                             WithHeaders([l EXCEPT !.status = 500,
                                                   !.error = r.err]))
            [] f = "fetchAccounts" ->
                 \* lines 852-868
                 IF r.kind = "value"
                 THEN [ pc    |-> "fa_list",
                        stack |-> rest,
                        loc   |-> [l EXCEPT !.userSecret = r.secret] ]
                 ELSE Unwind(rest, r, l)
            [] f = "syncAccounts" ->
                 \* sync/route.ts lines 44-52
                 [ pc    |-> "sy_holdings",
                   stack |-> rest,
                   loc   |-> IF r.kind = "value" THEN l
                             ELSE [l EXCEPT
                                     !.syncStatus = SyncStatusOnError(@),
                                     !.accountsRaised = TRUE,
                                     !.syncAccounts = << >>] ]
            [] f = "syncHoldings" ->
                 \* sync/route.ts lines 55-71
                 Unwind(rest, Value(NoSecret),
                        IF r.kind = "value"
                        THEN [l EXCEPT !.status = 200, !.success = TRUE]
                        ELSE [l EXCEPT !.status = 200, !.success = TRUE,
                                       !.syncStatus = SyncStatusOnError(@),
                                       !.holdingsRaised = TRUE,
                                       !.holdings = << >>])
            [] f = "linkRegister" ->
                 \* lines 770-777: registerSnapTradeUser called from the
                 \* catch of createSnapTradeUserLink
                 IF r.kind = "value"
                 THEN [pc |-> "cl_retry", stack |-> rest, loc |-> l]
                 ELSE IF HasStatus400(r.err)
                      THEN [ pc    |-> "cl_delete",
                             stack |-> rest,
                             loc   |-> [l EXCEPT !.regError = r.err] ]
                      ELSE Unwind(rest, Throw(LinkError(RegisterFailure(r.err))),
                                  l)
            [] OTHER -> Unwind(rest, r, l)

\* registerSnapTradeUser(userId) is called with the callers stk awaiting it
\* lines 237-240
EnterRegister(stk, l) ==
  LET l1 == [l EXCEPT !.entered = TRUE, !.path = << >>, !.regs = 0]
  IN IF ~sdk
     THEN Unwind(stk, Throw("SnapTrade SDK not initialized"), l1)
     ELSE [pc |-> "rs_select", stack |-> stk, loc |-> l1]

Goto(p, s) ==
  /\ pc'    = [pc EXCEPT ![p] = s.pc]
  /\ stack' = [stack EXCEPT ![p] = s.stack]
  /\ loc'   = [loc EXCEPT ![p] = s.loc]

At(p, label, l) == [pc |-> label, stack |-> stack[p], loc |-> l]

----------------------------------------------------------------------------
(* Top-level calls *)

\* a request takes the first free slot
CanStart(p) ==
  /\ pc[p] = "idle"
  /\ \A q \in Procs : q < p => pc[q] # "idle"
  /\ calls < budget
  /\ conc \/ \A q \in Procs : pc[q] = "idle"

Fresh(name, force) ==
  [NoLoc EXCEPT !.op = name, !.force = force,
                !.startRow = IF conc THEN NoRow ELSE row,
                !.startAssets = Len(assets),
                !.overlap = \E q \in Procs : pc[q] \notin {"idle", "done"}]

\* getUserSecret(userId, forceReregister)
StartGetSecret(p, force) ==
  /\ CanStart(p)
  /\ calls' = calls + 1
  /\ Goto(p, [pc |-> "gs_read", stack |-> << >>,
              loc |-> Fresh("getSecret", force)])
  /\ UNCHANGED <<sdk, conc, budget, assets, clock, stamps, row, remote, issued>>

\* registerSnapTradeUser(userId)
StartRegisterUser(p) ==
  /\ CanStart(p)
  /\ calls' = calls + 1
  /\ Goto(p, EnterRegister(<< >>, Fresh("registerUser", FALSE)))
  /\ UNCHANGED <<sdk, conc, budget, assets, clock, stamps, row, remote, issued>>

\* fetchSnapTradeHoldings(userId, accountId), lines 880-886
StartFetchHoldings(p, accountId) ==
  /\ CanStart(p)
  /\ calls' = calls + 1
  /\ LET l == [Fresh("fetchHoldings", FALSE) EXCEPT !.accountId = accountId]
     IN IF ~sdk
        THEN Goto(p, Unwind(<< >>, Throw("SnapTrade SDK not initialized"), l))
        ELSE Goto(p, [pc |-> "gs_read", stack |-> <<"fetchHoldings">>,
                      loc |-> l])
  /\ UNCHANGED <<sdk, conc, budget, assets, clock, stamps, row, remote, issued>>

\* the caller has taken the result
Finish(p) ==
  /\ pc[p] = "done"
  /\ Goto(p, [pc |-> "idle", stack |-> << >>, loc |-> NoLoc])
  /\ UNCHANGED <<sdk, conc, budget, assets, clock, stamps, row, remote, issued, calls>>

\* a request lasts far less than the clock's unit: days pass between requests
\* (overlapping requests are explored at one clock value: with overlap the
\* clock advances once the requests have been served)
Tick(d) ==
  /\ \A q \in Procs : pc[q] = "idle"
  /\ conc => calls >= MaxCallsConc
  /\ clock + d <= MaxClock
  /\ clock' = clock + d
  /\ UNCHANGED <<sdk, conc, budget, assets, stamps, row, remote, issued, calls, pc, stack, loc>>

\* the milliseconds of one unit of the clock
MillisPerHalfDay == 43200000

\* Date.now(): the platform clock in milliseconds. A later read never gives
\* a smaller value. Nothing in the code waits for the clock to move: two
\* reads of one request, of requests in progress at once, or of requests
\* served one right after the other may fall in the same millisecond and
\* give the same value.
DateNow ==
  IF stamps < clock * MillisPerHalfDay
  THEN {clock * MillisPerHalfDay}
  ELSE {stamps, stamps + 1}

----------------------------------------------------------------------------
(* The remote register endpoint *)

Registered(id) == \E u \in remote : u.id = id

\* snaptrade.authentication.registerSnapTradeUser({userId}): what it answers
RegisterOutcomes(id) ==
  IF Registered(id)
  THEN {"exists", "fail", "badrequest"}
  ELSE {"nodata", "fail", "badrequest"}
       \cup (IF issued < MaxIssued THEN {"ok"} ELSE {})

\* error.message of the error the register call raises
RegisterMessage(o) ==
  CASE o = "nodata" -> "Failed to register user with SnapTrade - no data returned"
    [] o = "exists" -> "User with the following userId already exist"
    [] o = "badrequest" -> "Request failed with status code 400"
    [] OTHER        -> "Request failed"

\* lines 308-317: status 400 and the 'already exist' detail
IsConflict(o) == o = "exists"

----------------------------------------------------------------------------
(* getUserSecret *)

\* lines 437-491: the store read and the decision that follows it
GsRead(p, ok) ==
  /\ pc[p] = "gs_read"
  /\ LET l  == loc[p]
         l1 == [l EXCEPT !.data = row, !.readOk = TRUE]
     IN IF ~ok
        THEN Goto(p, Unwind(stack[p],
                   Throw("Database error when retrieving user secret"), l))
        ELSE IF ReturnsStored(row, l.force, clock)
             THEN Goto(p, Unwind(stack[p], Value(row.secret), l1))
             ELSE Goto(p, EnterRegister(Append(stack[p], "getUserSecret"), l1))
  /\ UNCHANGED <<sdk, conc, budget, assets, clock, stamps, row, remote, issued, calls>>

\* mutant: the emergency fallback is upserted without is_active: true
EmergencyRow_Inactive(fakeSecret, message, now) ==
  Row(fakeSecret, FALSE,
      [EmptyData EXCEPT
         !.registered_at       = now,
         !.registration_method = "emergency_fallback",
         !.is_fake_secret      = TRUE,
         !.original_error      = message])

\* lines 511-526: the row the emergency fallback upserts
EmergencyRow(fakeSecret, message, now) ==
  Row(fakeSecret, TRUE,
      [EmptyData EXCEPT
         !.registered_at       = now,
         !.registration_method = "emergency_fallback",
         !.is_fake_secret      = TRUE,
         !.original_error      = message])

\* lines 507-510: the catch has no credentials to fall back on and spells
\* the emergency secret with the time it is entered at; it runs on in the
\* turn in which the registration failed, up to the await of line 511
GsFallback(p) ==
  /\ pc[p] = "gs_fallback"
  /\ \E now \in DateNow :
       /\ stamps' = now
       /\ Goto(p, At(p, "gs_upsert",
                  [loc[p] EXCEPT !.fakeSecret = EmergencySecret(now)]))
  /\ UNCHANGED <<sdk, conc, budget, assets, clock, row, remote, issued, calls>>

\* lines 511-529: the awaited upsert of the emergency secret, which is
\* returned
GsUpsert(p) ==
  /\ pc[p] = "gs_upsert"
  /\ LET l == loc[p]
     IN /\ row' = EmergencyRow(l.fakeSecret, l.regError, clock)
        /\ Goto(p, Unwind(stack[p], Value(l.fakeSecret),
                          [l EXCEPT !.writes = @ + 1]))
  /\ UNCHANGED <<sdk, conc, budget, assets, clock, stamps, remote, issued, calls>>

----------------------------------------------------------------------------
(* registerSnapTradeUser *)

\* lines 243-259: the short-circuit on an existing connection
ShortCircuits(existingConnection) == Truthy(existingConnection.secret)

RsSelect(p) ==
  /\ pc[p] = "rs_select"
  /\ LET l  == loc[p]
         existingConnection == SelectActive(row)
     IN IF ShortCircuits(existingConnection)
        THEN Goto(p, Unwind(stack[p], Value(existingConnection.secret),
                            [l EXCEPT !.path = Append(@, "existing")]))
        ELSE Goto(p, At(p, "rs_placeholder", l))
  /\ UNCHANGED <<sdk, conc, budget, assets, clock, stamps, row, remote, issued, calls>>

\* lines 245-259 when the select answers an error: `existingConnection` is
\* null and the registration goes on
RsSelectFailed(p) ==
  /\ pc[p] = "rs_select"
  /\ Goto(p, At(p, "rs_placeholder", loc[p]))
  /\ UNCHANGED <<sdk, conc, budget, assets, clock, stamps, row, remote, issued, calls>>

\* lines 265-277: the row the placeholder upsert leaves
PlaceholderRow(now) ==
  Row(Placeholder, TRUE, [EmptyData EXCEPT !.registration_started_at = now])

\* lines 264-277
RsPlaceholder(p) ==
  /\ pc[p] = "rs_placeholder"
  /\ row' = PlaceholderRow(clock)
  /\ Goto(p, At(p, "rs_register", [loc[p] EXCEPT !.writes = @ + 1]))
  /\ UNCHANGED <<sdk, conc, budget, assets, clock, stamps, remote, issued, calls>>

\* lines 280-285, 303-317: the direct register call and the error's class
RsRegister(p, o) ==
  /\ pc[p] = "rs_register"
  /\ o \in RegisterOutcomes(UserId)
  /\ LET l == [loc[p] EXCEPT !.regs = @ + 1, !.path = Append(@, "direct")]
     IN IF o = "ok"
        THEN /\ remote' = remote \cup
                    {[id |-> UserId, secret |-> RealSecret(issued + 1)]}
             /\ issued' = issued + 1
             /\ Goto(p, At(p, "rs_store_direct",
                        [l EXCEPT !.response = RealSecret(issued + 1)]))
        ELSE /\ UNCHANGED <<remote, issued>>
             /\ IF IsConflict(o)
                THEN Goto(p, At(p, "rs_reread", l))
                ELSE Goto(p, At(p, "rs_mark_failed",
                           [l EXCEPT !.regError = RegisterMessage(o)]))
  /\ UNCHANGED <<sdk, conc, budget, assets, clock, stamps, row, calls>>

\* mutant: the update writes the metadata but not api_secret_encrypted
DirectUpdate_KeepsSecret(r, userSecret, now) ==
  Update(r, r.secret, r.active,
         [EmptyData EXCEPT
            !.registered_at       = now,
            !.snap_trade_user_id  = UserId,
            !.registration_method = "direct"])

\* lines 287-298: the update after a successful direct registration
DirectUpdate(r, userSecret, now) ==
  Update(r, userSecret, r.active,
         [EmptyData EXCEPT
            !.registered_at       = now,
            !.snap_trade_user_id  = UserId,
            !.registration_method = "direct"])

\* lines 286-300
RsStoreDirect(p) ==
  /\ pc[p] = "rs_store_direct"
  /\ LET l == loc[p]
     IN /\ row' = DirectUpdate(row, l.response, clock)
        /\ Goto(p, Unwind(stack[p], Value(l.response),
                          [l EXCEPT !.writes = @ + 1]))
  /\ UNCHANGED <<sdk, conc, budget, assets, clock, stamps, remote, issued, calls>>

\* lines 328-332: any stored secret that is not the placeholder is reused
Reusable(existingData) ==
  Truthy(existingData.secret) /\ existingData.secret # Placeholder

\* lines 320-339
RsReread(p) ==
  /\ pc[p] = "rs_reread"
  /\ LET l == loc[p]
         existingData == row
     IN IF Reusable(existingData)
        THEN /\ Goto(p, Unwind(stack[p], Value(existingData.secret),
                               [l EXCEPT !.path = Append(@, "store_reuse")]))
             /\ UNCHANGED stamps
        ELSE \E now \in DateNow :
               /\ Goto(p, At(p, "rs_register_mod",
                          [l EXCEPT !.modId = ModifiedUserId(now)]))
               /\ stamps' = now
  /\ UNCHANGED <<sdk, conc, budget, assets, clock, row, remote, issued, calls>>

\* mutant: a failed modified-id registration is tried again
AfterModifiedFailure_Retry == "rs_register_mod"

\* lines 364-371: a failed modified-id registration is logged and the
\* synthesized secret is stored next
AfterModifiedFailure == "rs_store_fake"

\* lines 341-347, 364-370: on a failure the synthesized secret is spelled,
\* with the time of the failure, before the update is awaited
RsRegisterMod(p, o) ==
  /\ pc[p] = "rs_register_mod"
  /\ o \in RegisterOutcomes(loc[p].modId)
  /\ LET l == [loc[p] EXCEPT !.regs = @ + 1,
                             !.path = Append(@, "modified_id")]
     IN IF o = "ok"
        THEN /\ remote' = remote \cup
                    {[id |-> l.modId, secret |-> RealSecret(issued + 1)]}
             /\ issued' = issued + 1
             /\ Goto(p, At(p, "rs_store_mod",
                        [l EXCEPT !.response = RealSecret(issued + 1)]))
             /\ UNCHANGED stamps
        ELSE \E now \in DateNow :
               /\ UNCHANGED <<remote, issued>>
               /\ stamps' = now
               /\ Goto(p, At(p, AfterModifiedFailure,
                          [l EXCEPT !.fakeSecret = FakeSecret(now)]))
  /\ UNCHANGED <<sdk, conc, budget, assets, clock, row, calls>>

\* mutant: the update leaves original_user_id out of broker_data
ModifiedUpdate_NoOrigin(r, userSecret, modifiedUserId, now) ==
  Update(r, userSecret, r.active,
         [EmptyData EXCEPT
            !.registered_at       = now,
            !.snap_trade_user_id  = modifiedUserId,
            !.registration_method = "modified_id"])

\* lines 349-361: the update after a successful modified-id registration
ModifiedUpdate(r, userSecret, modifiedUserId, now) ==
  Update(r, userSecret, r.active,
         [EmptyData EXCEPT
            !.registered_at       = now,
            !.snap_trade_user_id  = modifiedUserId,
            !.original_user_id    = UserId,
            !.registration_method = "modified_id"])

\* lines 348-363
RsStoreMod(p) ==
  /\ pc[p] = "rs_store_mod"
  /\ LET l == loc[p]
     IN /\ row' = ModifiedUpdate(row, l.response, l.modId, clock)
        /\ Goto(p, Unwind(stack[p], Value(l.response),
                          [l EXCEPT !.writes = @ + 1]))
  /\ UNCHANGED <<sdk, conc, budget, assets, clock, stamps, remote, issued, calls>>

\* lines 371-383: the update that stores the synthesized secret
FallbackUpdate(r, fakeSecret, now) ==
  Update(r, fakeSecret, r.active,
         [EmptyData EXCEPT
            !.registered_at       = now,
            !.snap_trade_user_id  = UserId,
            !.registration_method = "fallback",
            !.is_fake_secret      = TRUE])

\* lines 371-386: the awaited update of the synthesized secret, which is
\* returned
RsStoreFake(p) ==
  /\ pc[p] = "rs_store_fake"
  /\ LET l == loc[p]
     IN /\ row' = FallbackUpdate(row, l.fakeSecret, clock)
        /\ Goto(p, Unwind(stack[p], Value(l.fakeSecret),
                          [l EXCEPT !.writes = @ + 1,
                                    !.path = Append(@, "synthesized")]))
  /\ UNCHANGED <<sdk, conc, budget, assets, clock, stamps, remote, issued, calls>>

FailedUpdate_StaysActive(r, message, now) ==
  Update(r, r.secret, r.active,
         [EmptyData EXCEPT
            !.registration_failed_at = now,
            !.error_message          = message])

\* lines 390-400: the update that marks the registration as failed
FailedUpdate(r, message, now) ==
  Update(r, r.secret, FALSE,
         [EmptyData EXCEPT
            !.registration_failed_at = now,
            !.error_message          = message])

\* lines 389-402
RsMarkFailed(p) ==
  /\ pc[p] = "rs_mark_failed"
  /\ LET l == loc[p]
     IN /\ row' = FailedUpdate(row, l.regError, clock)
        /\ Goto(p, Unwind(stack[p], Throw(l.regError),
                          [l EXCEPT !.writes = @ + 1]))
  /\ UNCHANGED <<sdk, conc, budget, assets, clock, stamps, remote, issued, calls>>

----------------------------------------------------------------------------
(* fetchSnapTradeHoldings *)

\* the remote accepts a secret only with the identity it was issued to
Authentic(id, secret) == [id |-> id, secret |-> secret] \in remote

\* snaptrade.accountInformation.listUserAccounts({userId, userSecret})
ListOutcomes(secret) ==
  IF Authentic(UserId, secret) THEN {"ok", "nodata", "fail"} ELSE {"fail"}

\* the loop of line 907 moves on to the next account, or line 1016 returns
NextAccount(p, l) ==
  IF l.i + 1 > Len(l.accounts)
  THEN Unwind(stack[p], Value(NoSecret), l)
  ELSE At(p, "fh_positions", [l EXCEPT !.i = @ + 1])

\* lines 890-907
FhList(p, o, as) ==
  /\ pc[p] = "fh_list"
  /\ o \in ListOutcomes(loc[p].userSecret)
  /\ LET l == [loc[p] EXCEPT !.listed = o]
         accountsToProcess ==
           IF l.accountId # "none"
           THEN FilterAccounts(as, l.accountId) ELSE as
     IN CASE o = "ok" ->
               Goto(p, NextAccount(p, [l EXCEPT !.accounts = accountsToProcess,
                                                !.i = 0]))
          [] o = "nodata" ->
               Goto(p, HoldingsFailure(stack[p], "Failed to fetch accounts", l))
          [] OTHER ->
               Goto(p, HoldingsFailure(stack[p], "Request failed", l))
  /\ UNCHANGED <<sdk, conc, budget, assets, clock, stamps, row, remote, issued, calls>>

AfterAccountFailure_Abort(p, l) ==
  Unwind(stack[p], Value(NoSecret), l)

\* lines 975-1013: the catches inside the loop end the iteration of the
\* failed account only
AfterAccountFailure(p, l) ==
  NextAccount(p, l)

\* lines 908-944 and the catch of lines 982-1013
FhPositions(p, o) ==
  /\ pc[p] = "fh_positions"
  /\ LET l       == [loc[p] EXCEPT !.pos = Append(@, o)]
         account == l.accounts[l.i]
     IN CASE o = "ok" ->
               Goto(p, At(p, "fh_balances",
                          [l EXCEPT !.holdings =
                             @ \o MapPositions(PositionsOf(account), account)]))
          [] o = "nodata" ->
               Goto(p, At(p, "fh_balances", l))
          [] o = "425" ->
               Goto(p, AfterAccountFailure(p,
                          [l EXCEPT !.holdings =
                                      Append(@, PendingHolding(account)),
                                    !.bal = Append(@, "skipped")]))
          [] OTHER ->
               Goto(p, AfterAccountFailure(p,
                          [l EXCEPT !.bal = Append(@, "skipped")]))
  /\ UNCHANGED <<sdk, conc, budget, assets, clock, stamps, row, remote, issued, calls>>

\* lines 946-981
FhBalances(p, o) ==
  /\ pc[p] = "fh_balances"
  /\ LET l       == [loc[p] EXCEPT !.bal = Append(@, o)]
         account == l.accounts[l.i]
     IN IF o = "ok"
        THEN Goto(p, NextAccount(p,
                       [l EXCEPT !.holdings =
                          @ \o CashHoldings(BalancesOf(account), account)]))
        ELSE Goto(p, AfterAccountFailure(p, l))
  /\ UNCHANGED <<sdk, conc, budget, assets, clock, stamps, row, remote, issued, calls>>

----------------------------------------------------------------------------
(* The DELETE endpoint of api/snaptrade/register: deregistration *)

\* the endpoint answers with HTTP status s
Respond(p, s, l) == Unwind(stack[p], Value(NoSecret), [l EXCEPT !.status = s])

\* lines 71-99: the request is parsed and the caller authenticated
StartDeregister(p, given, auth) ==
  /\ CanStart(p)
  /\ calls' = calls + 1
  /\ LET l == [Fresh("deregister", FALSE) EXCEPT !.given = given,
                                                  !.auth = auth]
     IN IF ~given THEN Goto(p, Respond(p, 400, l))
        ELSE IF auth = "throws"
        THEN \* the catch of lines 180-195
             Goto(p, Respond(p, 500, WithHeaders(l)))
        ELSE IF auth \in {"anonymous", "error"}
        THEN \* line 87: userError || !user
             Goto(p, Respond(p, 401, l))
        ELSE IF auth = "other" THEN Goto(p, Respond(p, 403, l))
        ELSE Goto(p, [pc |-> "dl_read", stack |-> << >>, loc |-> l])
  /\ UNCHANGED <<sdk, conc, budget, assets, clock, stamps, row, remote, issued>>

\* lines 101-145: the row is read; with a secret the remote delete is tried
\* (with a null client both tries raise a TypeError that is caught). Only
\* `data` is taken from the select: when it answers an error, existingData
\* is null, existingBrokerData is {} and there is no secret
DlRead(p, ok) ==
  /\ pc[p] = "dl_read"
  /\ LET l == IF ok
              THEN [loc[p] EXCEPT
                      !.existingBrokerData =
                         IF row.present THEN row.data ELSE EmptyData,
                      !.userSecret = row.secret]
              ELSE [loc[p] EXCEPT
                      !.existingBrokerData = EmptyData,
                      !.userSecret = NoSecret,
                      !.selected = FALSE]
     IN IF Truthy(l.userSecret) /\ sdk
        THEN Goto(p, At(p, "dl_remote", l))
        ELSE Goto(p, At(p, "dl_update", l))
  /\ UNCHANGED <<sdk, conc, budget, assets, clock, stamps, row, remote, issued, calls>>

\* snaptrade.authentication.deleteSnapTradeUser: what it answers
DeleteOutcomes == IF Registered(UserId) THEN {"ok", "fail"} ELSE {"fail"}

\* the remote forgets the identity
Forget(id) == {u \in remote : u.id # id}

\* lines 113-124: the delete with the user secret
DlRemote(p, o) ==
  /\ pc[p] = "dl_remote"
  /\ o \in DeleteOutcomes
  /\ LET l == [loc[p] EXCEPT !.remotes = Append(@, "delete")]
     IN IF o = "ok"
        THEN /\ remote' = Forget(UserId)
             /\ Goto(p, At(p, "dl_update", l))
        ELSE /\ UNCHANGED remote
             /\ Goto(p, At(p, "dl_remote_retry", l))
  /\ UNCHANGED <<sdk, conc, budget, assets, clock, stamps, row, issued, calls>>

\* lines 126-141: the delete without the user secret; a failure is ignored
DlRemoteRetry(p, o) ==
  /\ pc[p] = "dl_remote_retry"
  /\ o \in DeleteOutcomes
  /\ remote' = IF o = "ok" THEN Forget(UserId) ELSE remote
  /\ Goto(p, At(p, "dl_update", [loc[p] EXCEPT !.remotes = Append(@, "delete")]))
  /\ UNCHANGED <<sdk, conc, budget, assets, clock, stamps, row, issued, calls>>

\* deleteSnapTradeUser(userId), lines 414-417
StartDeleteUser(p) ==
  /\ CanStart(p)
  /\ calls' = calls + 1
  /\ LET l == Fresh("deleteUser", FALSE)
     IN IF ~sdk
        THEN Goto(p, Unwind(<< >>, Throw("SnapTrade SDK not initialized"), l))
        ELSE Goto(p, [pc |-> "du_delete", stack |-> << >>, loc |-> l])
  /\ UNCHANGED <<sdk, conc, budget, assets, clock, stamps, row, remote, issued>>

\* lines 419-428: the remote delete by the identity alone; its failure is
\* raised again, the row is left as it is
DuDelete(p, o) ==
  /\ pc[p] = "du_delete"
  /\ o \in DeleteOutcomes
  /\ LET l == [loc[p] EXCEPT !.remotes = Append(@, "delete")]
     IN IF o = "ok"
        THEN /\ remote' = Forget(UserId)
             /\ Goto(p, Unwind(stack[p], Value(NoSecret), l))
        ELSE /\ UNCHANGED remote
             /\ Goto(p, Unwind(stack[p], Throw("Request failed"), l))
  /\ UNCHANGED <<sdk, conc, budget, assets, clock, stamps, row, issued, calls>>

DeregisterUpdate_Wipes(r, existingBrokerData, now) ==
  Update(r, r.secret, FALSE,
         [EmptyData EXCEPT !.deleted_at = now, !.user_deleted = TRUE])

\* lines 148-159: the update that marks the connection inactive
DeregisterUpdate(r, existingBrokerData, now) ==
  Update(r, r.secret, FALSE,
         [existingBrokerData EXCEPT !.deleted_at = now, !.user_deleted = TRUE])

\* lines 147-179
DlUpdate(p, ok) ==
  /\ pc[p] = "dl_update"
  /\ LET l == loc[p]
     IN IF ok
        THEN /\ row' = DeregisterUpdate(row, l.existingBrokerData, clock)
             /\ Goto(p, Respond(p, 200,
                                 WithHeaders([l EXCEPT !.writes = @ + 1])))
        ELSE /\ UNCHANGED row
             /\ Goto(p, Respond(p, 500, l))
  /\ UNCHANGED <<sdk, conc, budget, assets, clock, stamps, remote, issued, calls>>

----------------------------------------------------------------------------
(* deleteSnapTradeConnection *)

\* account.brokerage.authorizationId of the accounts the remote holds
AuthorizationOf(a) == IF a = "a1" THEN "auth1" ELSE "auth2"

\* accountsResponse.data.find(acc => acc.brokerage?.authorizationId === id)
RECURSIVE FindAccount(_, _)
FindAccount(as, authorizationId) ==
  IF as = << >> THEN "none"
  ELSE IF AuthorizationOf(Head(as)) = authorizationId THEN Head(as)
  ELSE FindAccount(Tail(as), authorizationId)

\* deleteSnapTradeConnection(userId, authorizationId), lines 538-552
StartDeleteConnection(p, authorizationId) ==
  /\ CanStart(p)
  /\ calls' = calls + 1
  /\ LET l == [Fresh("deleteConnection", FALSE) EXCEPT
                 !.authorizationId = authorizationId]
     IN IF ~sdk
        THEN Goto(p, Unwind(<< >>, Throw("SnapTrade SDK not initialized"), l))
        ELSE Goto(p, [pc |-> "gs_read", stack |-> <<"deleteConnection">>,
                      loc |-> l])
  /\ UNCHANGED <<sdk, conc, budget, assets, clock, stamps, row, remote, issued>>

\* lines 554-575: the accounts are listed and the connection's account found
DcList(p, o, as) ==
  /\ pc[p] = "dc_list"
  /\ o \in ListOutcomes(loc[p].userSecret)
  /\ LET l == [loc[p] EXCEPT !.listed = o, !.remotes = Append(@, "list")]
         account == FindAccount(as, l.authorizationId)
     IN CASE o = "ok" ->
               IF account = "none"
               THEN Goto(p, Unwind(stack[p], Value(NoSecret), l))
               ELSE Goto(p, At(p, "dc_remove",
                               [l EXCEPT !.accounts = <<account>>, !.i = 1]))
          [] o = "nodata" ->
               Goto(p, Unwind(stack[p], Throw("Failed to fetch accounts"), l))
          [] OTHER ->
               Goto(p, Unwind(stack[p], Throw("Request failed"), l))
  /\ UNCHANGED <<sdk, conc, budget, assets, clock, stamps, row, remote, issued, calls>>

\* lines 577-591: removeBrokerageAuthorization; a failure is ignored
DcRemove(p, o) ==
  /\ pc[p] = "dc_remove"
  /\ Goto(p, At(p, "dc_delete_account",
              [loc[p] EXCEPT !.remotes = Append(@, "remove_" \o o)]))
  /\ UNCHANGED <<sdk, conc, budget, assets, clock, stamps, row, remote, issued, calls>>

\* lines 593-604: deleteUserAccount; a failure is ignored
DcDeleteAccount(p, o) ==
  /\ pc[p] = "dc_delete_account"
  /\ Goto(p, At(p, "dc_read",
              [loc[p] EXCEPT !.remotes = Append(@, "delete_account_" \o o)]))
  /\ UNCHANGED <<sdk, conc, budget, assets, clock, stamps, row, remote, issued, calls>>

\* lines 604-612: the broker_data to preserve is read. Only `data` is taken
\* from the select: when it answers an error, existingBrokerData is {}
DcRead(p, ok) ==
  /\ pc[p] = "dc_read"
  /\ Goto(p, At(p, "dc_update",
              IF ok
              THEN [loc[p] EXCEPT !.existingBrokerData =
                                    IF row.present THEN row.data
                                    ELSE EmptyData]
              ELSE [loc[p] EXCEPT !.existingBrokerData = EmptyData,
                                  !.selected = FALSE]))
  /\ UNCHANGED <<sdk, conc, budget, assets, clock, stamps, row, remote, issued, calls>>

DisconnectUpdate_Wipes(r, existingBrokerData, authorizationId, now) ==
  Update(r, r.secret, FALSE,
         [EmptyData EXCEPT !.disconnected_at = now,
                           !.authorization_id = authorizationId])

\* lines 614-625: the update that marks the connection inactive
DisconnectUpdate(r, existingBrokerData, authorizationId, now) ==
  Update(r, r.secret, FALSE,
         [existingBrokerData EXCEPT !.disconnected_at = now,
                                    !.authorization_id = authorizationId])

\* lines 614-648: a failed update is raised as
\* `Database error: ${dbError.message}` (the store's message being
\* 'Request failed')
DcUpdate(p, ok) ==
  /\ pc[p] = "dc_update"
  /\ LET l == loc[p]
     IN IF ok
        THEN /\ row' = DisconnectUpdate(row, l.existingBrokerData,
                                        l.authorizationId, clock)
             /\ Goto(p, Unwind(stack[p], Value(NoSecret),
                               [l EXCEPT !.writes = @ + 1]))
        ELSE /\ UNCHANGED row
             /\ Goto(p, Unwind(stack[p],
                               Throw("Database error: " \o "Request failed"),
                               l))
  /\ UNCHANGED <<sdk, conc, budget, assets, clock, stamps, remote, issued, calls>>

----------------------------------------------------------------------------
(* createSnapTradeUserLink *)

\* a JavaScript string is the sequence of its characters; the values a
\* string | null | undefined variable holds
Undefined == [k |-> "undefined", s |-> << >>]
Null      == [k |-> "null", s |-> << >>]
Str(s)    == [k |-> "string", s |-> s]

\* A character is a string of one character, or the name "U+hhhh" of its
\* code point when it lies outside Latin-1 (a TLA+ string cannot hold it).

\* The characters String.prototype.toUpperCase changes, each with the
\* characters it puts in its place: the upper-case mappings of the Unicode
\* character database (UnicodeData and SpecialCasing, the mappings that
\* depend on no language and no context), which ECMAScript applies code
\* point by code point. A letter may map to a letter outside its own script
\* (dotless i to I, long s to S) or to several characters (sharp s to SS,
\* the ligature fi to FI). The table is that of Unicode 17.0; the pairs the
\* versions 16.0 and 17.0 added are among them (the Garay and Beria Erfe
\* letters, Cyrillic tje, Latin lambda, rams horn and the letters after them
\* in Latin Extended-D), and a runtime with older data leaves those unchanged.
UpperCasePairs ==
  {
    <<"a", <<"A">>>>, <<"b", <<"B">>>>, <<"c", <<"C">>>>, <<"d", <<"D">>>>,
    <<"e", <<"E">>>>, <<"f", <<"F">>>>, <<"g", <<"G">>>>, <<"h", <<"H">>>>,
    <<"i", <<"I">>>>, <<"j", <<"J">>>>, <<"k", <<"K">>>>, <<"l", <<"L">>>>,
    <<"m", <<"M">>>>, <<"n", <<"N">>>>, <<"o", <<"O">>>>, <<"p", <<"P">>>>,
    <<"q", <<"Q">>>>, <<"r", <<"R">>>>, <<"s", <<"S">>>>, <<"t", <<"T">>>>,
    <<"u", <<"U">>>>, <<"v", <<"V">>>>, <<"w", <<"W">>>>, <<"x", <<"X">>>>,
    <<"y", <<"Y">>>>, <<"z", <<"Z">>>>, <<"µ", <<"U+039C">>>>,
    <<"ß", <<"S", "S">>>>, <<"à", <<"À">>>>, <<"á", <<"Á">>>>,
    <<"â", <<"Â">>>>, <<"ã", <<"Ã">>>>, <<"ä", <<"Ä">>>>, <<"å", <<"Å">>>>,
    <<"æ", <<"Æ">>>>, <<"ç", <<"Ç">>>>, <<"è", <<"È">>>>, <<"é", <<"É">>>>,
    <<"ê", <<"Ê">>>>, <<"ë", <<"Ë">>>>, <<"ì", <<"Ì">>>>, <<"í", <<"Í">>>>,
    <<"î", <<"Î">>>>, <<"ï", <<"Ï">>>>, <<"ð", <<"Ð">>>>, <<"ñ", <<"Ñ">>>>,
    <<"ò", <<"Ò">>>>, <<"ó", <<"Ó">>>>, <<"ô", <<"Ô">>>>, <<"õ", <<"Õ">>>>,
    <<"ö", <<"Ö">>>>, <<"ø", <<"Ø">>>>, <<"ù", <<"Ù">>>>, <<"ú", <<"Ú">>>>,
    <<"û", <<"Û">>>>, <<"ü", <<"Ü">>>>, <<"ý", <<"Ý">>>>, <<"þ", <<"Þ">>>>,
    <<"ÿ", <<"U+0178">>>>, <<"U+0101", <<"U+0100">>>>,
    <<"U+0103", <<"U+0102">>>>, <<"U+0105", <<"U+0104">>>>,
    <<"U+0107", <<"U+0106">>>>, <<"U+0109", <<"U+0108">>>>,
    <<"U+010B", <<"U+010A">>>>, <<"U+010D", <<"U+010C">>>>,
    <<"U+010F", <<"U+010E">>>>, <<"U+0111", <<"U+0110">>>>,
    <<"U+0113", <<"U+0112">>>>, <<"U+0115", <<"U+0114">>>>,
    <<"U+0117", <<"U+0116">>>>, <<"U+0119", <<"U+0118">>>>,
    <<"U+011B", <<"U+011A">>>>, <<"U+011D", <<"U+011C">>>>,
    <<"U+011F", <<"U+011E">>>>, <<"U+0121", <<"U+0120">>>>,
    <<"U+0123", <<"U+0122">>>>, <<"U+0125", <<"U+0124">>>>,
    <<"U+0127", <<"U+0126">>>>, <<"U+0129", <<"U+0128">>>>,
    <<"U+012B", <<"U+012A">>>>, <<"U+012D", <<"U+012C">>>>,
    <<"U+012F", <<"U+012E">>>>, <<"U+0131", <<"I">>>>,
    <<"U+0133", <<"U+0132">>>>, <<"U+0135", <<"U+0134">>>>,
    <<"U+0137", <<"U+0136">>>>, <<"U+013A", <<"U+0139">>>>,
    <<"U+013C", <<"U+013B">>>>, <<"U+013E", <<"U+013D">>>>,
    <<"U+0140", <<"U+013F">>>>, <<"U+0142", <<"U+0141">>>>,
    <<"U+0144", <<"U+0143">>>>, <<"U+0146", <<"U+0145">>>>,
    <<"U+0148", <<"U+0147">>>>, <<"U+0149", <<"U+02BC", "N">>>>,
    <<"U+014B", <<"U+014A">>>>, <<"U+014D", <<"U+014C">>>>,
    <<"U+014F", <<"U+014E">>>>, <<"U+0151", <<"U+0150">>>>,
    <<"U+0153", <<"U+0152">>>>, <<"U+0155", <<"U+0154">>>>,
    <<"U+0157", <<"U+0156">>>>, <<"U+0159", <<"U+0158">>>>,
    <<"U+015B", <<"U+015A">>>>, <<"U+015D", <<"U+015C">>>>,
    <<"U+015F", <<"U+015E">>>>, <<"U+0161", <<"U+0160">>>>,
    <<"U+0163", <<"U+0162">>>>, <<"U+0165", <<"U+0164">>>>,
    <<"U+0167", <<"U+0166">>>>, <<"U+0169", <<"U+0168">>>>,
    <<"U+016B", <<"U+016A">>>>, <<"U+016D", <<"U+016C">>>>,
    <<"U+016F", <<"U+016E">>>>, <<"U+0171", <<"U+0170">>>>,
    <<"U+0173", <<"U+0172">>>>, <<"U+0175", <<"U+0174">>>>,
    <<"U+0177", <<"U+0176">>>>, <<"U+017A", <<"U+0179">>>>,
    <<"U+017C", <<"U+017B">>>>, <<"U+017E", <<"U+017D">>>>,
    <<"U+017F", <<"S">>>>, <<"U+0180", <<"U+0243">>>>,
    <<"U+0183", <<"U+0182">>>>, <<"U+0185", <<"U+0184">>>>,
    <<"U+0188", <<"U+0187">>>>, <<"U+018C", <<"U+018B">>>>,
    <<"U+0192", <<"U+0191">>>>, <<"U+0195", <<"U+01F6">>>>,
    <<"U+0199", <<"U+0198">>>>, <<"U+019A", <<"U+023D">>>>,
    <<"U+019B", <<"U+A7DC">>>>, <<"U+019E", <<"U+0220">>>>,
    <<"U+01A1", <<"U+01A0">>>>, <<"U+01A3", <<"U+01A2">>>>,
    <<"U+01A5", <<"U+01A4">>>>, <<"U+01A8", <<"U+01A7">>>>,
    <<"U+01AD", <<"U+01AC">>>>, <<"U+01B0", <<"U+01AF">>>>,
    <<"U+01B4", <<"U+01B3">>>>, <<"U+01B6", <<"U+01B5">>>>,
    <<"U+01B9", <<"U+01B8">>>>, <<"U+01BD", <<"U+01BC">>>>,
    <<"U+01BF", <<"U+01F7">>>>, <<"U+01C5", <<"U+01C4">>>>,
    <<"U+01C6", <<"U+01C4">>>>, <<"U+01C8", <<"U+01C7">>>>,
    <<"U+01C9", <<"U+01C7">>>>, <<"U+01CB", <<"U+01CA">>>>,
    <<"U+01CC", <<"U+01CA">>>>, <<"U+01CE", <<"U+01CD">>>>,
    <<"U+01D0", <<"U+01CF">>>>, <<"U+01D2", <<"U+01D1">>>>,
    <<"U+01D4", <<"U+01D3">>>>, <<"U+01D6", <<"U+01D5">>>>,
    <<"U+01D8", <<"U+01D7">>>>, <<"U+01DA", <<"U+01D9">>>>,
    <<"U+01DC", <<"U+01DB">>>>, <<"U+01DD", <<"U+018E">>>>,
    <<"U+01DF", <<"U+01DE">>>>, <<"U+01E1", <<"U+01E0">>>>,
    <<"U+01E3", <<"U+01E2">>>>, <<"U+01E5", <<"U+01E4">>>>,
    <<"U+01E7", <<"U+01E6">>>>, <<"U+01E9", <<"U+01E8">>>>,
    <<"U+01EB", <<"U+01EA">>>>, <<"U+01ED", <<"U+01EC">>>>,
    <<"U+01EF", <<"U+01EE">>>>, <<"U+01F0", <<"J", "U+030C">>>>,
    <<"U+01F2", <<"U+01F1">>>>, <<"U+01F3", <<"U+01F1">>>>,
    <<"U+01F5", <<"U+01F4">>>>, <<"U+01F9", <<"U+01F8">>>>,
    <<"U+01FB", <<"U+01FA">>>>, <<"U+01FD", <<"U+01FC">>>>,
    <<"U+01FF", <<"U+01FE">>>>, <<"U+0201", <<"U+0200">>>>,
    <<"U+0203", <<"U+0202">>>>, <<"U+0205", <<"U+0204">>>>,
    <<"U+0207", <<"U+0206">>>>, <<"U+0209", <<"U+0208">>>>,
    <<"U+020B", <<"U+020A">>>>, <<"U+020D", <<"U+020C">>>>,
    <<"U+020F", <<"U+020E">>>>, <<"U+0211", <<"U+0210">>>>,
    <<"U+0213", <<"U+0212">>>>, <<"U+0215", <<"U+0214">>>>,
    <<"U+0217", <<"U+0216">>>>, <<"U+0219", <<"U+0218">>>>,
    <<"U+021B", <<"U+021A">>>>, <<"U+021D", <<"U+021C">>>>,
    <<"U+021F", <<"U+021E">>>>, <<"U+0223", <<"U+0222">>>>,
    <<"U+0225", <<"U+0224">>>>, <<"U+0227", <<"U+0226">>>>,
    <<"U+0229", <<"U+0228">>>>, <<"U+022B", <<"U+022A">>>>,
    <<"U+022D", <<"U+022C">>>>, <<"U+022F", <<"U+022E">>>>,
    <<"U+0231", <<"U+0230">>>>, <<"U+0233", <<"U+0232">>>>,
    <<"U+023C", <<"U+023B">>>>, <<"U+023F", <<"U+2C7E">>>>,
    <<"U+0240", <<"U+2C7F">>>>, <<"U+0242", <<"U+0241">>>>,
    <<"U+0247", <<"U+0246">>>>, <<"U+0249", <<"U+0248">>>>,
    <<"U+024B", <<"U+024A">>>>, <<"U+024D", <<"U+024C">>>>,
    <<"U+024F", <<"U+024E">>>>, <<"U+0250", <<"U+2C6F">>>>,
    <<"U+0251", <<"U+2C6D">>>>, <<"U+0252", <<"U+2C70">>>>,
    <<"U+0253", <<"U+0181">>>>, <<"U+0254", <<"U+0186">>>>,
    <<"U+0256", <<"U+0189">>>>, <<"U+0257", <<"U+018A">>>>,
    <<"U+0259", <<"U+018F">>>>, <<"U+025B", <<"U+0190">>>>,
    <<"U+025C", <<"U+A7AB">>>>, <<"U+0260", <<"U+0193">>>>,
    <<"U+0261", <<"U+A7AC">>>>, <<"U+0263", <<"U+0194">>>>,
    <<"U+0264", <<"U+A7CB">>>>, <<"U+0265", <<"U+A78D">>>>,
    <<"U+0266", <<"U+A7AA">>>>, <<"U+0268", <<"U+0197">>>>,
    <<"U+0269", <<"U+0196">>>>, <<"U+026A", <<"U+A7AE">>>>,
    <<"U+026B", <<"U+2C62">>>>, <<"U+026C", <<"U+A7AD">>>>,
    <<"U+026F", <<"U+019C">>>>, <<"U+0271", <<"U+2C6E">>>>,
    <<"U+0272", <<"U+019D">>>>, <<"U+0275", <<"U+019F">>>>,
    <<"U+027D", <<"U+2C64">>>>, <<"U+0280", <<"U+01A6">>>>,
    <<"U+0282", <<"U+A7C5">>>>, <<"U+0283", <<"U+01A9">>>>,
    <<"U+0287", <<"U+A7B1">>>>, <<"U+0288", <<"U+01AE">>>>,
    <<"U+0289", <<"U+0244">>>>, <<"U+028A", <<"U+01B1">>>>,
    <<"U+028B", <<"U+01B2">>>>, <<"U+028C", <<"U+0245">>>>,
    <<"U+0292", <<"U+01B7">>>>, <<"U+029D", <<"U+A7B2">>>>,
    <<"U+029E", <<"U+A7B0">>>>, <<"U+0345", <<"U+0399">>>>,
    <<"U+0371", <<"U+0370">>>>, <<"U+0373", <<"U+0372">>>>,
    <<"U+0377", <<"U+0376">>>>, <<"U+037B", <<"U+03FD">>>>,
    <<"U+037C", <<"U+03FE">>>>, <<"U+037D", <<"U+03FF">>>>,
    <<"U+0390", <<"U+0399", "U+0308", "U+0301">>>>,
    <<"U+03AC", <<"U+0386">>>>, <<"U+03AD", <<"U+0388">>>>,
    <<"U+03AE", <<"U+0389">>>>, <<"U+03AF", <<"U+038A">>>>,
    <<"U+03B0", <<"U+03A5", "U+0308", "U+0301">>>>,
    <<"U+03B1", <<"U+0391">>>>, <<"U+03B2", <<"U+0392">>>>,
    <<"U+03B3", <<"U+0393">>>>, <<"U+03B4", <<"U+0394">>>>,
    <<"U+03B5", <<"U+0395">>>>, <<"U+03B6", <<"U+0396">>>>,
    <<"U+03B7", <<"U+0397">>>>, <<"U+03B8", <<"U+0398">>>>,
    <<"U+03B9", <<"U+0399">>>>, <<"U+03BA", <<"U+039A">>>>,
    <<"U+03BB", <<"U+039B">>>>, <<"U+03BC", <<"U+039C">>>>,
    <<"U+03BD", <<"U+039D">>>>, <<"U+03BE", <<"U+039E">>>>,
    <<"U+03BF", <<"U+039F">>>>, <<"U+03C0", <<"U+03A0">>>>,
    <<"U+03C1", <<"U+03A1">>>>, <<"U+03C2", <<"U+03A3">>>>,
    <<"U+03C3", <<"U+03A3">>>>, <<"U+03C4", <<"U+03A4">>>>,
    <<"U+03C5", <<"U+03A5">>>>, <<"U+03C6", <<"U+03A6">>>>,
    <<"U+03C7", <<"U+03A7">>>>, <<"U+03C8", <<"U+03A8">>>>,
    <<"U+03C9", <<"U+03A9">>>>, <<"U+03CA", <<"U+03AA">>>>,
    <<"U+03CB", <<"U+03AB">>>>, <<"U+03CC", <<"U+038C">>>>,
    <<"U+03CD", <<"U+038E">>>>, <<"U+03CE", <<"U+038F">>>>,
    <<"U+03D0", <<"U+0392">>>>, <<"U+03D1", <<"U+0398">>>>,
    <<"U+03D5", <<"U+03A6">>>>, <<"U+03D6", <<"U+03A0">>>>,
    <<"U+03D7", <<"U+03CF">>>>, <<"U+03D9", <<"U+03D8">>>>,
    <<"U+03DB", <<"U+03DA">>>>, <<"U+03DD", <<"U+03DC">>>>,
    <<"U+03DF", <<"U+03DE">>>>, <<"U+03E1", <<"U+03E0">>>>,
    <<"U+03E3", <<"U+03E2">>>>, <<"U+03E5", <<"U+03E4">>>>,
    <<"U+03E7", <<"U+03E6">>>>, <<"U+03E9", <<"U+03E8">>>>,
    <<"U+03EB", <<"U+03EA">>>>, <<"U+03ED", <<"U+03EC">>>>,
    <<"U+03EF", <<"U+03EE">>>>, <<"U+03F0", <<"U+039A">>>>,
    <<"U+03F1", <<"U+03A1">>>>, <<"U+03F2", <<"U+03F9">>>>,
    <<"U+03F3", <<"U+037F">>>>, <<"U+03F5", <<"U+0395">>>>,
    <<"U+03F8", <<"U+03F7">>>>, <<"U+03FB", <<"U+03FA">>>>,
    <<"U+0430", <<"U+0410">>>>, <<"U+0431", <<"U+0411">>>>,
    <<"U+0432", <<"U+0412">>>>, <<"U+0433", <<"U+0413">>>>,
    <<"U+0434", <<"U+0414">>>>, <<"U+0435", <<"U+0415">>>>,
    <<"U+0436", <<"U+0416">>>>, <<"U+0437", <<"U+0417">>>>,
    <<"U+0438", <<"U+0418">>>>, <<"U+0439", <<"U+0419">>>>,
    <<"U+043A", <<"U+041A">>>>, <<"U+043B", <<"U+041B">>>>,
    <<"U+043C", <<"U+041C">>>>, <<"U+043D", <<"U+041D">>>>,
    <<"U+043E", <<"U+041E">>>>, <<"U+043F", <<"U+041F">>>>,
    <<"U+0440", <<"U+0420">>>>, <<"U+0441", <<"U+0421">>>>,
    <<"U+0442", <<"U+0422">>>>, <<"U+0443", <<"U+0423">>>>,
    <<"U+0444", <<"U+0424">>>>, <<"U+0445", <<"U+0425">>>>,
    <<"U+0446", <<"U+0426">>>>, <<"U+0447", <<"U+0427">>>>,
    <<"U+0448", <<"U+0428">>>>, <<"U+0449", <<"U+0429">>>>,
    <<"U+044A", <<"U+042A">>>>, <<"U+044B", <<"U+042B">>>>,
    <<"U+044C", <<"U+042C">>>>, <<"U+044D", <<"U+042D">>>>,
    <<"U+044E", <<"U+042E">>>>, <<"U+044F", <<"U+042F">>>>,
    <<"U+0450", <<"U+0400">>>>, <<"U+0451", <<"U+0401">>>>,
    <<"U+0452", <<"U+0402">>>>, <<"U+0453", <<"U+0403">>>>,
    <<"U+0454", <<"U+0404">>>>, <<"U+0455", <<"U+0405">>>>,
    <<"U+0456", <<"U+0406">>>>, <<"U+0457", <<"U+0407">>>>,
    <<"U+0458", <<"U+0408">>>>, <<"U+0459", <<"U+0409">>>>,
    <<"U+045A", <<"U+040A">>>>, <<"U+045B", <<"U+040B">>>>,
    <<"U+045C", <<"U+040C">>>>, <<"U+045D", <<"U+040D">>>>,
    <<"U+045E", <<"U+040E">>>>, <<"U+045F", <<"U+040F">>>>,
    <<"U+0461", <<"U+0460">>>>, <<"U+0463", <<"U+0462">>>>,
    <<"U+0465", <<"U+0464">>>>, <<"U+0467", <<"U+0466">>>>,
    <<"U+0469", <<"U+0468">>>>, <<"U+046B", <<"U+046A">>>>,
    <<"U+046D", <<"U+046C">>>>, <<"U+046F", <<"U+046E">>>>,
    <<"U+0471", <<"U+0470">>>>, <<"U+0473", <<"U+0472">>>>,
    <<"U+0475", <<"U+0474">>>>, <<"U+0477", <<"U+0476">>>>,
    <<"U+0479", <<"U+0478">>>>, <<"U+047B", <<"U+047A">>>>,
    <<"U+047D", <<"U+047C">>>>, <<"U+047F", <<"U+047E">>>>,
    <<"U+0481", <<"U+0480">>>>, <<"U+048B", <<"U+048A">>>>,
    <<"U+048D", <<"U+048C">>>>, <<"U+048F", <<"U+048E">>>>,
    <<"U+0491", <<"U+0490">>>>, <<"U+0493", <<"U+0492">>>>,
    <<"U+0495", <<"U+0494">>>>, <<"U+0497", <<"U+0496">>>>,
    <<"U+0499", <<"U+0498">>>>, <<"U+049B", <<"U+049A">>>>,
    <<"U+049D", <<"U+049C">>>>, <<"U+049F", <<"U+049E">>>>,
    <<"U+04A1", <<"U+04A0">>>>, <<"U+04A3", <<"U+04A2">>>>,
    <<"U+04A5", <<"U+04A4">>>>, <<"U+04A7", <<"U+04A6">>>>,
    <<"U+04A9", <<"U+04A8">>>>, <<"U+04AB", <<"U+04AA">>>>,
    <<"U+04AD", <<"U+04AC">>>>, <<"U+04AF", <<"U+04AE">>>>,
    <<"U+04B1", <<"U+04B0">>>>, <<"U+04B3", <<"U+04B2">>>>,
    <<"U+04B5", <<"U+04B4">>>>, <<"U+04B7", <<"U+04B6">>>>,
    <<"U+04B9", <<"U+04B8">>>>, <<"U+04BB", <<"U+04BA">>>>,
    <<"U+04BD", <<"U+04BC">>>>, <<"U+04BF", <<"U+04BE">>>>,
    <<"U+04C2", <<"U+04C1">>>>, <<"U+04C4", <<"U+04C3">>>>,
    <<"U+04C6", <<"U+04C5">>>>, <<"U+04C8", <<"U+04C7">>>>,
    <<"U+04CA", <<"U+04C9">>>>, <<"U+04CC", <<"U+04CB">>>>,
    <<"U+04CE", <<"U+04CD">>>>, <<"U+04CF", <<"U+04C0">>>>,
    <<"U+04D1", <<"U+04D0">>>>, <<"U+04D3", <<"U+04D2">>>>,
    <<"U+04D5", <<"U+04D4">>>>, <<"U+04D7", <<"U+04D6">>>>,
    <<"U+04D9", <<"U+04D8">>>>, <<"U+04DB", <<"U+04DA">>>>,
    <<"U+04DD", <<"U+04DC">>>>, <<"U+04DF", <<"U+04DE">>>>,
    <<"U+04E1", <<"U+04E0">>>>, <<"U+04E3", <<"U+04E2">>>>,
    <<"U+04E5", <<"U+04E4">>>>, <<"U+04E7", <<"U+04E6">>>>,
    <<"U+04E9", <<"U+04E8">>>>, <<"U+04EB", <<"U+04EA">>>>,
    <<"U+04ED", <<"U+04EC">>>>, <<"U+04EF", <<"U+04EE">>>>,
    <<"U+04F1", <<"U+04F0">>>>, <<"U+04F3", <<"U+04F2">>>>,
    <<"U+04F5", <<"U+04F4">>>>, <<"U+04F7", <<"U+04F6">>>>,
    <<"U+04F9", <<"U+04F8">>>>, <<"U+04FB", <<"U+04FA">>>>,
    <<"U+04FD", <<"U+04FC">>>>, <<"U+04FF", <<"U+04FE">>>>,
    <<"U+0501", <<"U+0500">>>>, <<"U+0503", <<"U+0502">>>>,
    <<"U+0505", <<"U+0504">>>>, <<"U+0507", <<"U+0506">>>>,
    <<"U+0509", <<"U+0508">>>>, <<"U+050B", <<"U+050A">>>>,
    <<"U+050D", <<"U+050C">>>>, <<"U+050F", <<"U+050E">>>>,
    <<"U+0511", <<"U+0510">>>>, <<"U+0513", <<"U+0512">>>>,
    <<"U+0515", <<"U+0514">>>>, <<"U+0517", <<"U+0516">>>>,
    <<"U+0519", <<"U+0518">>>>, <<"U+051B", <<"U+051A">>>>,
    <<"U+051D", <<"U+051C">>>>, <<"U+051F", <<"U+051E">>>>,
    <<"U+0521", <<"U+0520">>>>, <<"U+0523", <<"U+0522">>>>,
    <<"U+0525", <<"U+0524">>>>, <<"U+0527", <<"U+0526">>>>,
    <<"U+0529", <<"U+0528">>>>, <<"U+052B", <<"U+052A">>>>,
    <<"U+052D", <<"U+052C">>>>, <<"U+052F", <<"U+052E">>>>,
    <<"U+0561", <<"U+0531">>>>, <<"U+0562", <<"U+0532">>>>,
    <<"U+0563", <<"U+0533">>>>, <<"U+0564", <<"U+0534">>>>,
    <<"U+0565", <<"U+0535">>>>, <<"U+0566", <<"U+0536">>>>,
    <<"U+0567", <<"U+0537">>>>, <<"U+0568", <<"U+0538">>>>,
    <<"U+0569", <<"U+0539">>>>, <<"U+056A", <<"U+053A">>>>,
    <<"U+056B", <<"U+053B">>>>, <<"U+056C", <<"U+053C">>>>,
    <<"U+056D", <<"U+053D">>>>, <<"U+056E", <<"U+053E">>>>,
    <<"U+056F", <<"U+053F">>>>, <<"U+0570", <<"U+0540">>>>,
    <<"U+0571", <<"U+0541">>>>, <<"U+0572", <<"U+0542">>>>,
    <<"U+0573", <<"U+0543">>>>, <<"U+0574", <<"U+0544">>>>,
    <<"U+0575", <<"U+0545">>>>, <<"U+0576", <<"U+0546">>>>,
    <<"U+0577", <<"U+0547">>>>, <<"U+0578", <<"U+0548">>>>,
    <<"U+0579", <<"U+0549">>>>, <<"U+057A", <<"U+054A">>>>,
    <<"U+057B", <<"U+054B">>>>, <<"U+057C", <<"U+054C">>>>,
    <<"U+057D", <<"U+054D">>>>, <<"U+057E", <<"U+054E">>>>,
    <<"U+057F", <<"U+054F">>>>, <<"U+0580", <<"U+0550">>>>,
    <<"U+0581", <<"U+0551">>>>, <<"U+0582", <<"U+0552">>>>,
    <<"U+0583", <<"U+0553">>>>, <<"U+0584", <<"U+0554">>>>,
    <<"U+0585", <<"U+0555">>>>, <<"U+0586", <<"U+0556">>>>,
    <<"U+0587", <<"U+0535", "U+0552">>>>, <<"U+10D0", <<"U+1C90">>>>,
    <<"U+10D1", <<"U+1C91">>>>, <<"U+10D2", <<"U+1C92">>>>,
    <<"U+10D3", <<"U+1C93">>>>, <<"U+10D4", <<"U+1C94">>>>,
    <<"U+10D5", <<"U+1C95">>>>, <<"U+10D6", <<"U+1C96">>>>,
    <<"U+10D7", <<"U+1C97">>>>, <<"U+10D8", <<"U+1C98">>>>,
    <<"U+10D9", <<"U+1C99">>>>, <<"U+10DA", <<"U+1C9A">>>>,
    <<"U+10DB", <<"U+1C9B">>>>, <<"U+10DC", <<"U+1C9C">>>>,
    <<"U+10DD", <<"U+1C9D">>>>, <<"U+10DE", <<"U+1C9E">>>>,
    <<"U+10DF", <<"U+1C9F">>>>, <<"U+10E0", <<"U+1CA0">>>>,
    <<"U+10E1", <<"U+1CA1">>>>, <<"U+10E2", <<"U+1CA2">>>>,
    <<"U+10E3", <<"U+1CA3">>>>, <<"U+10E4", <<"U+1CA4">>>>,
    <<"U+10E5", <<"U+1CA5">>>>, <<"U+10E6", <<"U+1CA6">>>>,
    <<"U+10E7", <<"U+1CA7">>>>, <<"U+10E8", <<"U+1CA8">>>>,
    <<"U+10E9", <<"U+1CA9">>>>, <<"U+10EA", <<"U+1CAA">>>>,
    <<"U+10EB", <<"U+1CAB">>>>, <<"U+10EC", <<"U+1CAC">>>>,
    <<"U+10ED", <<"U+1CAD">>>>, <<"U+10EE", <<"U+1CAE">>>>,
    <<"U+10EF", <<"U+1CAF">>>>, <<"U+10F0", <<"U+1CB0">>>>,
    <<"U+10F1", <<"U+1CB1">>>>, <<"U+10F2", <<"U+1CB2">>>>,
    <<"U+10F3", <<"U+1CB3">>>>, <<"U+10F4", <<"U+1CB4">>>>,
    <<"U+10F5", <<"U+1CB5">>>>, <<"U+10F6", <<"U+1CB6">>>>,
    <<"U+10F7", <<"U+1CB7">>>>, <<"U+10F8", <<"U+1CB8">>>>,
    <<"U+10F9", <<"U+1CB9">>>>, <<"U+10FA", <<"U+1CBA">>>>,
    <<"U+10FD", <<"U+1CBD">>>>, <<"U+10FE", <<"U+1CBE">>>>,
    <<"U+10FF", <<"U+1CBF">>>>, <<"U+13F8", <<"U+13F0">>>>,
    <<"U+13F9", <<"U+13F1">>>>, <<"U+13FA", <<"U+13F2">>>>,
    <<"U+13FB", <<"U+13F3">>>>, <<"U+13FC", <<"U+13F4">>>>,
    <<"U+13FD", <<"U+13F5">>>>, <<"U+1C80", <<"U+0412">>>>,
    <<"U+1C81", <<"U+0414">>>>, <<"U+1C82", <<"U+041E">>>>,
    <<"U+1C83", <<"U+0421">>>>, <<"U+1C84", <<"U+0422">>>>,
    <<"U+1C85", <<"U+0422">>>>, <<"U+1C86", <<"U+042A">>>>,
    <<"U+1C87", <<"U+0462">>>>, <<"U+1C88", <<"U+A64A">>>>,
    <<"U+1C8A", <<"U+1C89">>>>, <<"U+1D79", <<"U+A77D">>>>,
    <<"U+1D7D", <<"U+2C63">>>>, <<"U+1D8E", <<"U+A7C6">>>>,
    <<"U+1E01", <<"U+1E00">>>>, <<"U+1E03", <<"U+1E02">>>>,
    <<"U+1E05", <<"U+1E04">>>>, <<"U+1E07", <<"U+1E06">>>>,
    <<"U+1E09", <<"U+1E08">>>>, <<"U+1E0B", <<"U+1E0A">>>>,
    <<"U+1E0D", <<"U+1E0C">>>>, <<"U+1E0F", <<"U+1E0E">>>>,
    <<"U+1E11", <<"U+1E10">>>>, <<"U+1E13", <<"U+1E12">>>>,
    <<"U+1E15", <<"U+1E14">>>>, <<"U+1E17", <<"U+1E16">>>>,
    <<"U+1E19", <<"U+1E18">>>>, <<"U+1E1B", <<"U+1E1A">>>>,
    <<"U+1E1D", <<"U+1E1C">>>>, <<"U+1E1F", <<"U+1E1E">>>>,
    <<"U+1E21", <<"U+1E20">>>>, <<"U+1E23", <<"U+1E22">>>>,
    <<"U+1E25", <<"U+1E24">>>>, <<"U+1E27", <<"U+1E26">>>>,
    <<"U+1E29", <<"U+1E28">>>>, <<"U+1E2B", <<"U+1E2A">>>>,
    <<"U+1E2D", <<"U+1E2C">>>>, <<"U+1E2F", <<"U+1E2E">>>>,
    <<"U+1E31", <<"U+1E30">>>>, <<"U+1E33", <<"U+1E32">>>>,
    <<"U+1E35", <<"U+1E34">>>>, <<"U+1E37", <<"U+1E36">>>>,
    <<"U+1E39", <<"U+1E38">>>>, <<"U+1E3B", <<"U+1E3A">>>>,
    <<"U+1E3D", <<"U+1E3C">>>>, <<"U+1E3F", <<"U+1E3E">>>>,
    <<"U+1E41", <<"U+1E40">>>>, <<"U+1E43", <<"U+1E42">>>>,
    <<"U+1E45", <<"U+1E44">>>>, <<"U+1E47", <<"U+1E46">>>>,
    <<"U+1E49", <<"U+1E48">>>>, <<"U+1E4B", <<"U+1E4A">>>>,
    <<"U+1E4D", <<"U+1E4C">>>>, <<"U+1E4F", <<"U+1E4E">>>>,
    <<"U+1E51", <<"U+1E50">>>>, <<"U+1E53", <<"U+1E52">>>>,
    <<"U+1E55", <<"U+1E54">>>>, <<"U+1E57", <<"U+1E56">>>>,
    <<"U+1E59", <<"U+1E58">>>>, <<"U+1E5B", <<"U+1E5A">>>>,
    <<"U+1E5D", <<"U+1E5C">>>>, <<"U+1E5F", <<"U+1E5E">>>>,
    <<"U+1E61", <<"U+1E60">>>>, <<"U+1E63", <<"U+1E62">>>>,
    <<"U+1E65", <<"U+1E64">>>>, <<"U+1E67", <<"U+1E66">>>>,
    <<"U+1E69", <<"U+1E68">>>>, <<"U+1E6B", <<"U+1E6A">>>>,
    <<"U+1E6D", <<"U+1E6C">>>>, <<"U+1E6F", <<"U+1E6E">>>>,
    <<"U+1E71", <<"U+1E70">>>>, <<"U+1E73", <<"U+1E72">>>>,
    <<"U+1E75", <<"U+1E74">>>>, <<"U+1E77", <<"U+1E76">>>>,
    <<"U+1E79", <<"U+1E78">>>>, <<"U+1E7B", <<"U+1E7A">>>>,
    <<"U+1E7D", <<"U+1E7C">>>>, <<"U+1E7F", <<"U+1E7E">>>>,
    <<"U+1E81", <<"U+1E80">>>>, <<"U+1E83", <<"U+1E82">>>>,
    <<"U+1E85", <<"U+1E84">>>>, <<"U+1E87", <<"U+1E86">>>>,
    <<"U+1E89", <<"U+1E88">>>>, <<"U+1E8B", <<"U+1E8A">>>>,
    <<"U+1E8D", <<"U+1E8C">>>>, <<"U+1E8F", <<"U+1E8E">>>>,
    <<"U+1E91", <<"U+1E90">>>>, <<"U+1E93", <<"U+1E92">>>>,
    <<"U+1E95", <<"U+1E94">>>>, <<"U+1E96", <<"H", "U+0331">>>>,
    <<"U+1E97", <<"T", "U+0308">>>>, <<"U+1E98", <<"W", "U+030A">>>>,
    <<"U+1E99", <<"Y", "U+030A">>>>, <<"U+1E9A", <<"A", "U+02BE">>>>,
    <<"U+1E9B", <<"U+1E60">>>>, <<"U+1EA1", <<"U+1EA0">>>>,
    <<"U+1EA3", <<"U+1EA2">>>>, <<"U+1EA5", <<"U+1EA4">>>>,
    <<"U+1EA7", <<"U+1EA6">>>>, <<"U+1EA9", <<"U+1EA8">>>>,
    <<"U+1EAB", <<"U+1EAA">>>>, <<"U+1EAD", <<"U+1EAC">>>>,
    <<"U+1EAF", <<"U+1EAE">>>>, <<"U+1EB1", <<"U+1EB0">>>>,
    <<"U+1EB3", <<"U+1EB2">>>>, <<"U+1EB5", <<"U+1EB4">>>>,
    <<"U+1EB7", <<"U+1EB6">>>>, <<"U+1EB9", <<"U+1EB8">>>>,
    <<"U+1EBB", <<"U+1EBA">>>>, <<"U+1EBD", <<"U+1EBC">>>>,
    <<"U+1EBF", <<"U+1EBE">>>>, <<"U+1EC1", <<"U+1EC0">>>>,
    <<"U+1EC3", <<"U+1EC2">>>>, <<"U+1EC5", <<"U+1EC4">>>>,
    <<"U+1EC7", <<"U+1EC6">>>>, <<"U+1EC9", <<"U+1EC8">>>>,
    <<"U+1ECB", <<"U+1ECA">>>>, <<"U+1ECD", <<"U+1ECC">>>>,
    <<"U+1ECF", <<"U+1ECE">>>>, <<"U+1ED1", <<"U+1ED0">>>>,
    <<"U+1ED3", <<"U+1ED2">>>>, <<"U+1ED5", <<"U+1ED4">>>>,
    <<"U+1ED7", <<"U+1ED6">>>>, <<"U+1ED9", <<"U+1ED8">>>>,
    <<"U+1EDB", <<"U+1EDA">>>>, <<"U+1EDD", <<"U+1EDC">>>>,
    <<"U+1EDF", <<"U+1EDE">>>>, <<"U+1EE1", <<"U+1EE0">>>>,
    <<"U+1EE3", <<"U+1EE2">>>>, <<"U+1EE5", <<"U+1EE4">>>>,
    <<"U+1EE7", <<"U+1EE6">>>>, <<"U+1EE9", <<"U+1EE8">>>>,
    <<"U+1EEB", <<"U+1EEA">>>>, <<"U+1EED", <<"U+1EEC">>>>,
    <<"U+1EEF", <<"U+1EEE">>>>, <<"U+1EF1", <<"U+1EF0">>>>,
    <<"U+1EF3", <<"U+1EF2">>>>, <<"U+1EF5", <<"U+1EF4">>>>,
    <<"U+1EF7", <<"U+1EF6">>>>, <<"U+1EF9", <<"U+1EF8">>>>,
    <<"U+1EFB", <<"U+1EFA">>>>, <<"U+1EFD", <<"U+1EFC">>>>,
    <<"U+1EFF", <<"U+1EFE">>>>, <<"U+1F00", <<"U+1F08">>>>,
    <<"U+1F01", <<"U+1F09">>>>, <<"U+1F02", <<"U+1F0A">>>>,
    <<"U+1F03", <<"U+1F0B">>>>, <<"U+1F04", <<"U+1F0C">>>>,
    <<"U+1F05", <<"U+1F0D">>>>, <<"U+1F06", <<"U+1F0E">>>>,
    <<"U+1F07", <<"U+1F0F">>>>, <<"U+1F10", <<"U+1F18">>>>,
    <<"U+1F11", <<"U+1F19">>>>, <<"U+1F12", <<"U+1F1A">>>>,
    <<"U+1F13", <<"U+1F1B">>>>, <<"U+1F14", <<"U+1F1C">>>>,
    <<"U+1F15", <<"U+1F1D">>>>, <<"U+1F20", <<"U+1F28">>>>,
    <<"U+1F21", <<"U+1F29">>>>, <<"U+1F22", <<"U+1F2A">>>>,
    <<"U+1F23", <<"U+1F2B">>>>, <<"U+1F24", <<"U+1F2C">>>>,
    <<"U+1F25", <<"U+1F2D">>>>, <<"U+1F26", <<"U+1F2E">>>>,
    <<"U+1F27", <<"U+1F2F">>>>, <<"U+1F30", <<"U+1F38">>>>,
    <<"U+1F31", <<"U+1F39">>>>, <<"U+1F32", <<"U+1F3A">>>>,
    <<"U+1F33", <<"U+1F3B">>>>, <<"U+1F34", <<"U+1F3C">>>>,
    <<"U+1F35", <<"U+1F3D">>>>, <<"U+1F36", <<"U+1F3E">>>>,
    <<"U+1F37", <<"U+1F3F">>>>, <<"U+1F40", <<"U+1F48">>>>,
    <<"U+1F41", <<"U+1F49">>>>, <<"U+1F42", <<"U+1F4A">>>>,
    <<"U+1F43", <<"U+1F4B">>>>, <<"U+1F44", <<"U+1F4C">>>>,
    <<"U+1F45", <<"U+1F4D">>>>, <<"U+1F50", <<"U+03A5", "U+0313">>>>,
    <<"U+1F51", <<"U+1F59">>>>,
    <<"U+1F52", <<"U+03A5", "U+0313", "U+0300">>>>,
    <<"U+1F53", <<"U+1F5B">>>>,
    <<"U+1F54", <<"U+03A5", "U+0313", "U+0301">>>>,
    <<"U+1F55", <<"U+1F5D">>>>,
    <<"U+1F56", <<"U+03A5", "U+0313", "U+0342">>>>,
    <<"U+1F57", <<"U+1F5F">>>>, <<"U+1F60", <<"U+1F68">>>>,
    <<"U+1F61", <<"U+1F69">>>>, <<"U+1F62", <<"U+1F6A">>>>,
    <<"U+1F63", <<"U+1F6B">>>>, <<"U+1F64", <<"U+1F6C">>>>,
    <<"U+1F65", <<"U+1F6D">>>>, <<"U+1F66", <<"U+1F6E">>>>,
    <<"U+1F67", <<"U+1F6F">>>>, <<"U+1F70", <<"U+1FBA">>>>,
    <<"U+1F71", <<"U+1FBB">>>>, <<"U+1F72", <<"U+1FC8">>>>,
    <<"U+1F73", <<"U+1FC9">>>>, <<"U+1F74", <<"U+1FCA">>>>,
    <<"U+1F75", <<"U+1FCB">>>>, <<"U+1F76", <<"U+1FDA">>>>,
    <<"U+1F77", <<"U+1FDB">>>>, <<"U+1F78", <<"U+1FF8">>>>,
    <<"U+1F79", <<"U+1FF9">>>>, <<"U+1F7A", <<"U+1FEA">>>>,
    <<"U+1F7B", <<"U+1FEB">>>>, <<"U+1F7C", <<"U+1FFA">>>>,
    <<"U+1F7D", <<"U+1FFB">>>>, <<"U+1F80", <<"U+1F08", "U+0399">>>>,
    <<"U+1F81", <<"U+1F09", "U+0399">>>>,
    <<"U+1F82", <<"U+1F0A", "U+0399">>>>,
    <<"U+1F83", <<"U+1F0B", "U+0399">>>>,
    <<"U+1F84", <<"U+1F0C", "U+0399">>>>,
    <<"U+1F85", <<"U+1F0D", "U+0399">>>>,
    <<"U+1F86", <<"U+1F0E", "U+0399">>>>,
    <<"U+1F87", <<"U+1F0F", "U+0399">>>>,
    <<"U+1F88", <<"U+1F08", "U+0399">>>>,
    <<"U+1F89", <<"U+1F09", "U+0399">>>>,
    <<"U+1F8A", <<"U+1F0A", "U+0399">>>>,
    <<"U+1F8B", <<"U+1F0B", "U+0399">>>>,
    <<"U+1F8C", <<"U+1F0C", "U+0399">>>>,
    <<"U+1F8D", <<"U+1F0D", "U+0399">>>>,
    <<"U+1F8E", <<"U+1F0E", "U+0399">>>>,
    <<"U+1F8F", <<"U+1F0F", "U+0399">>>>,
    <<"U+1F90", <<"U+1F28", "U+0399">>>>,
    <<"U+1F91", <<"U+1F29", "U+0399">>>>,
    <<"U+1F92", <<"U+1F2A", "U+0399">>>>,
    <<"U+1F93", <<"U+1F2B", "U+0399">>>>,
    <<"U+1F94", <<"U+1F2C", "U+0399">>>>,
    <<"U+1F95", <<"U+1F2D", "U+0399">>>>,
    <<"U+1F96", <<"U+1F2E", "U+0399">>>>,
    <<"U+1F97", <<"U+1F2F", "U+0399">>>>,
    <<"U+1F98", <<"U+1F28", "U+0399">>>>,
    <<"U+1F99", <<"U+1F29", "U+0399">>>>,
    <<"U+1F9A", <<"U+1F2A", "U+0399">>>>,
    <<"U+1F9B", <<"U+1F2B", "U+0399">>>>,
    <<"U+1F9C", <<"U+1F2C", "U+0399">>>>,
    <<"U+1F9D", <<"U+1F2D", "U+0399">>>>,
    <<"U+1F9E", <<"U+1F2E", "U+0399">>>>,
    <<"U+1F9F", <<"U+1F2F", "U+0399">>>>,
    <<"U+1FA0", <<"U+1F68", "U+0399">>>>,
    <<"U+1FA1", <<"U+1F69", "U+0399">>>>,
    <<"U+1FA2", <<"U+1F6A", "U+0399">>>>,
    <<"U+1FA3", <<"U+1F6B", "U+0399">>>>,
    <<"U+1FA4", <<"U+1F6C", "U+0399">>>>,
    <<"U+1FA5", <<"U+1F6D", "U+0399">>>>,
    <<"U+1FA6", <<"U+1F6E", "U+0399">>>>,
    <<"U+1FA7", <<"U+1F6F", "U+0399">>>>,
    <<"U+1FA8", <<"U+1F68", "U+0399">>>>,
    <<"U+1FA9", <<"U+1F69", "U+0399">>>>,
    <<"U+1FAA", <<"U+1F6A", "U+0399">>>>,
    <<"U+1FAB", <<"U+1F6B", "U+0399">>>>,
    <<"U+1FAC", <<"U+1F6C", "U+0399">>>>,
    <<"U+1FAD", <<"U+1F6D", "U+0399">>>>,
    <<"U+1FAE", <<"U+1F6E", "U+0399">>>>,
    <<"U+1FAF", <<"U+1F6F", "U+0399">>>>, <<"U+1FB0", <<"U+1FB8">>>>,
    <<"U+1FB1", <<"U+1FB9">>>>, <<"U+1FB2", <<"U+1FBA", "U+0399">>>>,
    <<"U+1FB3", <<"U+0391", "U+0399">>>>,
    <<"U+1FB4", <<"U+0386", "U+0399">>>>,
    <<"U+1FB6", <<"U+0391", "U+0342">>>>,
    <<"U+1FB7", <<"U+0391", "U+0342", "U+0399">>>>,
    <<"U+1FBC", <<"U+0391", "U+0399">>>>, <<"U+1FBE", <<"U+0399">>>>,
    <<"U+1FC2", <<"U+1FCA", "U+0399">>>>,
    <<"U+1FC3", <<"U+0397", "U+0399">>>>,
    <<"U+1FC4", <<"U+0389", "U+0399">>>>,
    <<"U+1FC6", <<"U+0397", "U+0342">>>>,
    <<"U+1FC7", <<"U+0397", "U+0342", "U+0399">>>>,
    <<"U+1FCC", <<"U+0397", "U+0399">>>>, <<"U+1FD0", <<"U+1FD8">>>>,
    <<"U+1FD1", <<"U+1FD9">>>>,
    <<"U+1FD2", <<"U+0399", "U+0308", "U+0300">>>>,
    <<"U+1FD3", <<"U+0399", "U+0308", "U+0301">>>>,
    <<"U+1FD6", <<"U+0399", "U+0342">>>>,
    <<"U+1FD7", <<"U+0399", "U+0308", "U+0342">>>>,
    <<"U+1FE0", <<"U+1FE8">>>>, <<"U+1FE1", <<"U+1FE9">>>>,
    <<"U+1FE2", <<"U+03A5", "U+0308", "U+0300">>>>,
    <<"U+1FE3", <<"U+03A5", "U+0308", "U+0301">>>>,
    <<"U+1FE4", <<"U+03A1", "U+0313">>>>, <<"U+1FE5", <<"U+1FEC">>>>,
    <<"U+1FE6", <<"U+03A5", "U+0342">>>>,
    <<"U+1FE7", <<"U+03A5", "U+0308", "U+0342">>>>,
    <<"U+1FF2", <<"U+1FFA", "U+0399">>>>,
    <<"U+1FF3", <<"U+03A9", "U+0399">>>>,
    <<"U+1FF4", <<"U+038F", "U+0399">>>>,
    <<"U+1FF6", <<"U+03A9", "U+0342">>>>,
    <<"U+1FF7", <<"U+03A9", "U+0342", "U+0399">>>>,
    <<"U+1FFC", <<"U+03A9", "U+0399">>>>, <<"U+214E", <<"U+2132">>>>,
    <<"U+2170", <<"U+2160">>>>, <<"U+2171", <<"U+2161">>>>,
    <<"U+2172", <<"U+2162">>>>, <<"U+2173", <<"U+2163">>>>,
    <<"U+2174", <<"U+2164">>>>, <<"U+2175", <<"U+2165">>>>,
    <<"U+2176", <<"U+2166">>>>, <<"U+2177", <<"U+2167">>>>,
    <<"U+2178", <<"U+2168">>>>, <<"U+2179", <<"U+2169">>>>,
    <<"U+217A", <<"U+216A">>>>, <<"U+217B", <<"U+216B">>>>,
    <<"U+217C", <<"U+216C">>>>, <<"U+217D", <<"U+216D">>>>,
    <<"U+217E", <<"U+216E">>>>, <<"U+217F", <<"U+216F">>>>,
    <<"U+2184", <<"U+2183">>>>, <<"U+24D0", <<"U+24B6">>>>,
    <<"U+24D1", <<"U+24B7">>>>, <<"U+24D2", <<"U+24B8">>>>,
    <<"U+24D3", <<"U+24B9">>>>, <<"U+24D4", <<"U+24BA">>>>,
    <<"U+24D5", <<"U+24BB">>>>, <<"U+24D6", <<"U+24BC">>>>,
    <<"U+24D7", <<"U+24BD">>>>, <<"U+24D8", <<"U+24BE">>>>,
    <<"U+24D9", <<"U+24BF">>>>, <<"U+24DA", <<"U+24C0">>>>,
    <<"U+24DB", <<"U+24C1">>>>, <<"U+24DC", <<"U+24C2">>>>,
    <<"U+24DD", <<"U+24C3">>>>, <<"U+24DE", <<"U+24C4">>>>,
    <<"U+24DF", <<"U+24C5">>>>, <<"U+24E0", <<"U+24C6">>>>,
    <<"U+24E1", <<"U+24C7">>>>, <<"U+24E2", <<"U+24C8">>>>,
    <<"U+24E3", <<"U+24C9">>>>, <<"U+24E4", <<"U+24CA">>>>,
    <<"U+24E5", <<"U+24CB">>>>, <<"U+24E6", <<"U+24CC">>>>,
    <<"U+24E7", <<"U+24CD">>>>, <<"U+24E8", <<"U+24CE">>>>,
    <<"U+24E9", <<"U+24CF">>>>, <<"U+2C30", <<"U+2C00">>>>,
    <<"U+2C31", <<"U+2C01">>>>, <<"U+2C32", <<"U+2C02">>>>,
    <<"U+2C33", <<"U+2C03">>>>, <<"U+2C34", <<"U+2C04">>>>,
    <<"U+2C35", <<"U+2C05">>>>, <<"U+2C36", <<"U+2C06">>>>,
    <<"U+2C37", <<"U+2C07">>>>, <<"U+2C38", <<"U+2C08">>>>,
    <<"U+2C39", <<"U+2C09">>>>, <<"U+2C3A", <<"U+2C0A">>>>,
    <<"U+2C3B", <<"U+2C0B">>>>, <<"U+2C3C", <<"U+2C0C">>>>,
    <<"U+2C3D", <<"U+2C0D">>>>, <<"U+2C3E", <<"U+2C0E">>>>,
    <<"U+2C3F", <<"U+2C0F">>>>, <<"U+2C40", <<"U+2C10">>>>,
    <<"U+2C41", <<"U+2C11">>>>, <<"U+2C42", <<"U+2C12">>>>,
    <<"U+2C43", <<"U+2C13">>>>, <<"U+2C44", <<"U+2C14">>>>,
    <<"U+2C45", <<"U+2C15">>>>, <<"U+2C46", <<"U+2C16">>>>,
    <<"U+2C47", <<"U+2C17">>>>, <<"U+2C48", <<"U+2C18">>>>,
    <<"U+2C49", <<"U+2C19">>>>, <<"U+2C4A", <<"U+2C1A">>>>,
    <<"U+2C4B", <<"U+2C1B">>>>, <<"U+2C4C", <<"U+2C1C">>>>,
    <<"U+2C4D", <<"U+2C1D">>>>, <<"U+2C4E", <<"U+2C1E">>>>,
    <<"U+2C4F", <<"U+2C1F">>>>, <<"U+2C50", <<"U+2C20">>>>,
    <<"U+2C51", <<"U+2C21">>>>, <<"U+2C52", <<"U+2C22">>>>,
    <<"U+2C53", <<"U+2C23">>>>, <<"U+2C54", <<"U+2C24">>>>,
    <<"U+2C55", <<"U+2C25">>>>, <<"U+2C56", <<"U+2C26">>>>,
    <<"U+2C57", <<"U+2C27">>>>, <<"U+2C58", <<"U+2C28">>>>,
    <<"U+2C59", <<"U+2C29">>>>, <<"U+2C5A", <<"U+2C2A">>>>,
    <<"U+2C5B", <<"U+2C2B">>>>, <<"U+2C5C", <<"U+2C2C">>>>,
    <<"U+2C5D", <<"U+2C2D">>>>, <<"U+2C5E", <<"U+2C2E">>>>,
    <<"U+2C5F", <<"U+2C2F">>>>, <<"U+2C61", <<"U+2C60">>>>,
    <<"U+2C65", <<"U+023A">>>>, <<"U+2C66", <<"U+023E">>>>,
    <<"U+2C68", <<"U+2C67">>>>, <<"U+2C6A", <<"U+2C69">>>>,
    <<"U+2C6C", <<"U+2C6B">>>>, <<"U+2C73", <<"U+2C72">>>>,
    <<"U+2C76", <<"U+2C75">>>>, <<"U+2C81", <<"U+2C80">>>>,
    <<"U+2C83", <<"U+2C82">>>>, <<"U+2C85", <<"U+2C84">>>>,
    <<"U+2C87", <<"U+2C86">>>>, <<"U+2C89", <<"U+2C88">>>>,
    <<"U+2C8B", <<"U+2C8A">>>>, <<"U+2C8D", <<"U+2C8C">>>>,
    <<"U+2C8F", <<"U+2C8E">>>>, <<"U+2C91", <<"U+2C90">>>>,
    <<"U+2C93", <<"U+2C92">>>>, <<"U+2C95", <<"U+2C94">>>>,
    <<"U+2C97", <<"U+2C96">>>>, <<"U+2C99", <<"U+2C98">>>>,
    <<"U+2C9B", <<"U+2C9A">>>>, <<"U+2C9D", <<"U+2C9C">>>>,
    <<"U+2C9F", <<"U+2C9E">>>>, <<"U+2CA1", <<"U+2CA0">>>>,
    <<"U+2CA3", <<"U+2CA2">>>>, <<"U+2CA5", <<"U+2CA4">>>>,
    <<"U+2CA7", <<"U+2CA6">>>>, <<"U+2CA9", <<"U+2CA8">>>>,
    <<"U+2CAB", <<"U+2CAA">>>>, <<"U+2CAD", <<"U+2CAC">>>>,
    <<"U+2CAF", <<"U+2CAE">>>>, <<"U+2CB1", <<"U+2CB0">>>>,
    <<"U+2CB3", <<"U+2CB2">>>>, <<"U+2CB5", <<"U+2CB4">>>>,
    <<"U+2CB7", <<"U+2CB6">>>>, <<"U+2CB9", <<"U+2CB8">>>>,
    <<"U+2CBB", <<"U+2CBA">>>>, <<"U+2CBD", <<"U+2CBC">>>>,
    <<"U+2CBF", <<"U+2CBE">>>>, <<"U+2CC1", <<"U+2CC0">>>>,
    <<"U+2CC3", <<"U+2CC2">>>>, <<"U+2CC5", <<"U+2CC4">>>>,
    <<"U+2CC7", <<"U+2CC6">>>>, <<"U+2CC9", <<"U+2CC8">>>>,
    <<"U+2CCB", <<"U+2CCA">>>>, <<"U+2CCD", <<"U+2CCC">>>>,
    <<"U+2CCF", <<"U+2CCE">>>>, <<"U+2CD1", <<"U+2CD0">>>>,
    <<"U+2CD3", <<"U+2CD2">>>>, <<"U+2CD5", <<"U+2CD4">>>>,
    <<"U+2CD7", <<"U+2CD6">>>>, <<"U+2CD9", <<"U+2CD8">>>>,
    <<"U+2CDB", <<"U+2CDA">>>>, <<"U+2CDD", <<"U+2CDC">>>>,
    <<"U+2CDF", <<"U+2CDE">>>>, <<"U+2CE1", <<"U+2CE0">>>>,
    <<"U+2CE3", <<"U+2CE2">>>>, <<"U+2CEC", <<"U+2CEB">>>>,
    <<"U+2CEE", <<"U+2CED">>>>, <<"U+2CF3", <<"U+2CF2">>>>,
    <<"U+2D00", <<"U+10A0">>>>, <<"U+2D01", <<"U+10A1">>>>,
    <<"U+2D02", <<"U+10A2">>>>, <<"U+2D03", <<"U+10A3">>>>,
    <<"U+2D04", <<"U+10A4">>>>, <<"U+2D05", <<"U+10A5">>>>,
    <<"U+2D06", <<"U+10A6">>>>, <<"U+2D07", <<"U+10A7">>>>,
    <<"U+2D08", <<"U+10A8">>>>, <<"U+2D09", <<"U+10A9">>>>,
    <<"U+2D0A", <<"U+10AA">>>>, <<"U+2D0B", <<"U+10AB">>>>,
    <<"U+2D0C", <<"U+10AC">>>>, <<"U+2D0D", <<"U+10AD">>>>,
    <<"U+2D0E", <<"U+10AE">>>>, <<"U+2D0F", <<"U+10AF">>>>,
    <<"U+2D10", <<"U+10B0">>>>, <<"U+2D11", <<"U+10B1">>>>,
    <<"U+2D12", <<"U+10B2">>>>, <<"U+2D13", <<"U+10B3">>>>,
    <<"U+2D14", <<"U+10B4">>>>, <<"U+2D15", <<"U+10B5">>>>,
    <<"U+2D16", <<"U+10B6">>>>, <<"U+2D17", <<"U+10B7">>>>,
    <<"U+2D18", <<"U+10B8">>>>, <<"U+2D19", <<"U+10B9">>>>,
    <<"U+2D1A", <<"U+10BA">>>>, <<"U+2D1B", <<"U+10BB">>>>,
    <<"U+2D1C", <<"U+10BC">>>>, <<"U+2D1D", <<"U+10BD">>>>,
    <<"U+2D1E", <<"U+10BE">>>>, <<"U+2D1F", <<"U+10BF">>>>,
    <<"U+2D20", <<"U+10C0">>>>, <<"U+2D21", <<"U+10C1">>>>,
    <<"U+2D22", <<"U+10C2">>>>, <<"U+2D23", <<"U+10C3">>>>,
    <<"U+2D24", <<"U+10C4">>>>, <<"U+2D25", <<"U+10C5">>>>,
    <<"U+2D27", <<"U+10C7">>>>, <<"U+2D2D", <<"U+10CD">>>>,
    <<"U+A641", <<"U+A640">>>>, <<"U+A643", <<"U+A642">>>>,
    <<"U+A645", <<"U+A644">>>>, <<"U+A647", <<"U+A646">>>>,
    <<"U+A649", <<"U+A648">>>>, <<"U+A64B", <<"U+A64A">>>>,
    <<"U+A64D", <<"U+A64C">>>>, <<"U+A64F", <<"U+A64E">>>>,
    <<"U+A651", <<"U+A650">>>>, <<"U+A653", <<"U+A652">>>>,
    <<"U+A655", <<"U+A654">>>>, <<"U+A657", <<"U+A656">>>>,
    <<"U+A659", <<"U+A658">>>>, <<"U+A65B", <<"U+A65A">>>>,
    <<"U+A65D", <<"U+A65C">>>>, <<"U+A65F", <<"U+A65E">>>>,
    <<"U+A661", <<"U+A660">>>>, <<"U+A663", <<"U+A662">>>>,
    <<"U+A665", <<"U+A664">>>>, <<"U+A667", <<"U+A666">>>>,
    <<"U+A669", <<"U+A668">>>>, <<"U+A66B", <<"U+A66A">>>>,
    <<"U+A66D", <<"U+A66C">>>>, <<"U+A681", <<"U+A680">>>>,
    <<"U+A683", <<"U+A682">>>>, <<"U+A685", <<"U+A684">>>>,
    <<"U+A687", <<"U+A686">>>>, <<"U+A689", <<"U+A688">>>>,
    <<"U+A68B", <<"U+A68A">>>>, <<"U+A68D", <<"U+A68C">>>>,
    <<"U+A68F", <<"U+A68E">>>>, <<"U+A691", <<"U+A690">>>>,
    <<"U+A693", <<"U+A692">>>>, <<"U+A695", <<"U+A694">>>>,
    <<"U+A697", <<"U+A696">>>>, <<"U+A699", <<"U+A698">>>>,
    <<"U+A69B", <<"U+A69A">>>>, <<"U+A723", <<"U+A722">>>>,
    <<"U+A725", <<"U+A724">>>>, <<"U+A727", <<"U+A726">>>>,
    <<"U+A729", <<"U+A728">>>>, <<"U+A72B", <<"U+A72A">>>>,
    <<"U+A72D", <<"U+A72C">>>>, <<"U+A72F", <<"U+A72E">>>>,
    <<"U+A733", <<"U+A732">>>>, <<"U+A735", <<"U+A734">>>>,
    <<"U+A737", <<"U+A736">>>>, <<"U+A739", <<"U+A738">>>>,
    <<"U+A73B", <<"U+A73A">>>>, <<"U+A73D", <<"U+A73C">>>>,
    <<"U+A73F", <<"U+A73E">>>>, <<"U+A741", <<"U+A740">>>>,
    <<"U+A743", <<"U+A742">>>>, <<"U+A745", <<"U+A744">>>>,
    <<"U+A747", <<"U+A746">>>>, <<"U+A749", <<"U+A748">>>>,
    <<"U+A74B", <<"U+A74A">>>>, <<"U+A74D", <<"U+A74C">>>>,
    <<"U+A74F", <<"U+A74E">>>>, <<"U+A751", <<"U+A750">>>>,
    <<"U+A753", <<"U+A752">>>>, <<"U+A755", <<"U+A754">>>>,
    <<"U+A757", <<"U+A756">>>>, <<"U+A759", <<"U+A758">>>>,
    <<"U+A75B", <<"U+A75A">>>>, <<"U+A75D", <<"U+A75C">>>>,
    <<"U+A75F", <<"U+A75E">>>>, <<"U+A761", <<"U+A760">>>>,
    <<"U+A763", <<"U+A762">>>>, <<"U+A765", <<"U+A764">>>>,
    <<"U+A767", <<"U+A766">>>>, <<"U+A769", <<"U+A768">>>>,
    <<"U+A76B", <<"U+A76A">>>>, <<"U+A76D", <<"U+A76C">>>>,
    <<"U+A76F", <<"U+A76E">>>>, <<"U+A77A", <<"U+A779">>>>,
    <<"U+A77C", <<"U+A77B">>>>, <<"U+A77F", <<"U+A77E">>>>,
    <<"U+A781", <<"U+A780">>>>, <<"U+A783", <<"U+A782">>>>,
    <<"U+A785", <<"U+A784">>>>, <<"U+A787", <<"U+A786">>>>,
    <<"U+A78C", <<"U+A78B">>>>, <<"U+A791", <<"U+A790">>>>,
    <<"U+A793", <<"U+A792">>>>, <<"U+A794", <<"U+A7C4">>>>,
    <<"U+A797", <<"U+A796">>>>, <<"U+A799", <<"U+A798">>>>,
    <<"U+A79B", <<"U+A79A">>>>, <<"U+A79D", <<"U+A79C">>>>,
    <<"U+A79F", <<"U+A79E">>>>, <<"U+A7A1", <<"U+A7A0">>>>,
    <<"U+A7A3", <<"U+A7A2">>>>, <<"U+A7A5", <<"U+A7A4">>>>,
    <<"U+A7A7", <<"U+A7A6">>>>, <<"U+A7A9", <<"U+A7A8">>>>,
    <<"U+A7B5", <<"U+A7B4">>>>, <<"U+A7B7", <<"U+A7B6">>>>,
    <<"U+A7B9", <<"U+A7B8">>>>, <<"U+A7BB", <<"U+A7BA">>>>,
    <<"U+A7BD", <<"U+A7BC">>>>, <<"U+A7BF", <<"U+A7BE">>>>,
    <<"U+A7C1", <<"U+A7C0">>>>, <<"U+A7C3", <<"U+A7C2">>>>,
    <<"U+A7C8", <<"U+A7C7">>>>, <<"U+A7CA", <<"U+A7C9">>>>,
    <<"U+A7CD", <<"U+A7CC">>>>, <<"U+A7CF", <<"U+A7CE">>>>,
    <<"U+A7D1", <<"U+A7D0">>>>, <<"U+A7D3", <<"U+A7D2">>>>,
    <<"U+A7D5", <<"U+A7D4">>>>, <<"U+A7D7", <<"U+A7D6">>>>,
    <<"U+A7D9", <<"U+A7D8">>>>, <<"U+A7DB", <<"U+A7DA">>>>,
    <<"U+A7F6", <<"U+A7F5">>>>, <<"U+AB53", <<"U+A7B3">>>>,
    <<"U+AB70", <<"U+13A0">>>>, <<"U+AB71", <<"U+13A1">>>>,
    <<"U+AB72", <<"U+13A2">>>>, <<"U+AB73", <<"U+13A3">>>>,
    <<"U+AB74", <<"U+13A4">>>>, <<"U+AB75", <<"U+13A5">>>>,
    <<"U+AB76", <<"U+13A6">>>>, <<"U+AB77", <<"U+13A7">>>>,
    <<"U+AB78", <<"U+13A8">>>>, <<"U+AB79", <<"U+13A9">>>>,
    <<"U+AB7A", <<"U+13AA">>>>, <<"U+AB7B", <<"U+13AB">>>>,
    <<"U+AB7C", <<"U+13AC">>>>, <<"U+AB7D", <<"U+13AD">>>>,
    <<"U+AB7E", <<"U+13AE">>>>, <<"U+AB7F", <<"U+13AF">>>>,
    <<"U+AB80", <<"U+13B0">>>>, <<"U+AB81", <<"U+13B1">>>>,
    <<"U+AB82", <<"U+13B2">>>>, <<"U+AB83", <<"U+13B3">>>>,
    <<"U+AB84", <<"U+13B4">>>>, <<"U+AB85", <<"U+13B5">>>>,
    <<"U+AB86", <<"U+13B6">>>>, <<"U+AB87", <<"U+13B7">>>>,
    <<"U+AB88", <<"U+13B8">>>>, <<"U+AB89", <<"U+13B9">>>>,
    <<"U+AB8A", <<"U+13BA">>>>, <<"U+AB8B", <<"U+13BB">>>>,
    <<"U+AB8C", <<"U+13BC">>>>, <<"U+AB8D", <<"U+13BD">>>>,
    <<"U+AB8E", <<"U+13BE">>>>, <<"U+AB8F", <<"U+13BF">>>>,
    <<"U+AB90", <<"U+13C0">>>>, <<"U+AB91", <<"U+13C1">>>>,
    <<"U+AB92", <<"U+13C2">>>>, <<"U+AB93", <<"U+13C3">>>>,
    <<"U+AB94", <<"U+13C4">>>>, <<"U+AB95", <<"U+13C5">>>>,
    <<"U+AB96", <<"U+13C6">>>>, <<"U+AB97", <<"U+13C7">>>>,
    <<"U+AB98", <<"U+13C8">>>>, <<"U+AB99", <<"U+13C9">>>>,
    <<"U+AB9A", <<"U+13CA">>>>, <<"U+AB9B", <<"U+13CB">>>>,
    <<"U+AB9C", <<"U+13CC">>>>, <<"U+AB9D", <<"U+13CD">>>>,
    <<"U+AB9E", <<"U+13CE">>>>, <<"U+AB9F", <<"U+13CF">>>>,
    <<"U+ABA0", <<"U+13D0">>>>, <<"U+ABA1", <<"U+13D1">>>>,
    <<"U+ABA2", <<"U+13D2">>>>, <<"U+ABA3", <<"U+13D3">>>>,
    <<"U+ABA4", <<"U+13D4">>>>, <<"U+ABA5", <<"U+13D5">>>>,
    <<"U+ABA6", <<"U+13D6">>>>, <<"U+ABA7", <<"U+13D7">>>>,
    <<"U+ABA8", <<"U+13D8">>>>, <<"U+ABA9", <<"U+13D9">>>>,
    <<"U+ABAA", <<"U+13DA">>>>, <<"U+ABAB", <<"U+13DB">>>>,
    <<"U+ABAC", <<"U+13DC">>>>, <<"U+ABAD", <<"U+13DD">>>>,
    <<"U+ABAE", <<"U+13DE">>>>, <<"U+ABAF", <<"U+13DF">>>>,
    <<"U+ABB0", <<"U+13E0">>>>, <<"U+ABB1", <<"U+13E1">>>>,
    <<"U+ABB2", <<"U+13E2">>>>, <<"U+ABB3", <<"U+13E3">>>>,
    <<"U+ABB4", <<"U+13E4">>>>, <<"U+ABB5", <<"U+13E5">>>>,
    <<"U+ABB6", <<"U+13E6">>>>, <<"U+ABB7", <<"U+13E7">>>>,
    <<"U+ABB8", <<"U+13E8">>>>, <<"U+ABB9", <<"U+13E9">>>>,
    <<"U+ABBA", <<"U+13EA">>>>, <<"U+ABBB", <<"U+13EB">>>>,
    <<"U+ABBC", <<"U+13EC">>>>, <<"U+ABBD", <<"U+13ED">>>>,
    <<"U+ABBE", <<"U+13EE">>>>, <<"U+ABBF", <<"U+13EF">>>>,
    <<"U+FB00", <<"F", "F">>>>, <<"U+FB01", <<"F", "I">>>>,
    <<"U+FB02", <<"F", "L">>>>, <<"U+FB03", <<"F", "F", "I">>>>,
    <<"U+FB04", <<"F", "F", "L">>>>, <<"U+FB05", <<"S", "T">>>>,
    <<"U+FB06", <<"S", "T">>>>, <<"U+FB13", <<"U+0544", "U+0546">>>>,
    <<"U+FB14", <<"U+0544", "U+0535">>>>,
    <<"U+FB15", <<"U+0544", "U+053B">>>>,
    <<"U+FB16", <<"U+054E", "U+0546">>>>,
    <<"U+FB17", <<"U+0544", "U+053D">>>>, <<"U+FF41", <<"U+FF21">>>>,
    <<"U+FF42", <<"U+FF22">>>>, <<"U+FF43", <<"U+FF23">>>>,
    <<"U+FF44", <<"U+FF24">>>>, <<"U+FF45", <<"U+FF25">>>>,
    <<"U+FF46", <<"U+FF26">>>>, <<"U+FF47", <<"U+FF27">>>>,
    <<"U+FF48", <<"U+FF28">>>>, <<"U+FF49", <<"U+FF29">>>>,
    <<"U+FF4A", <<"U+FF2A">>>>, <<"U+FF4B", <<"U+FF2B">>>>,
    <<"U+FF4C", <<"U+FF2C">>>>, <<"U+FF4D", <<"U+FF2D">>>>,
    <<"U+FF4E", <<"U+FF2E">>>>, <<"U+FF4F", <<"U+FF2F">>>>,
    <<"U+FF50", <<"U+FF30">>>>, <<"U+FF51", <<"U+FF31">>>>,
    <<"U+FF52", <<"U+FF32">>>>, <<"U+FF53", <<"U+FF33">>>>,
    <<"U+FF54", <<"U+FF34">>>>, <<"U+FF55", <<"U+FF35">>>>,
    <<"U+FF56", <<"U+FF36">>>>, <<"U+FF57", <<"U+FF37">>>>,
    <<"U+FF58", <<"U+FF38">>>>, <<"U+FF59", <<"U+FF39">>>>,
    <<"U+FF5A", <<"U+FF3A">>>>, <<"U+10428", <<"U+10400">>>>,
    <<"U+10429", <<"U+10401">>>>, <<"U+1042A", <<"U+10402">>>>,
    <<"U+1042B", <<"U+10403">>>>, <<"U+1042C", <<"U+10404">>>>,
    <<"U+1042D", <<"U+10405">>>>, <<"U+1042E", <<"U+10406">>>>,
    <<"U+1042F", <<"U+10407">>>>, <<"U+10430", <<"U+10408">>>>,
    <<"U+10431", <<"U+10409">>>>, <<"U+10432", <<"U+1040A">>>>,
    <<"U+10433", <<"U+1040B">>>>, <<"U+10434", <<"U+1040C">>>>,
    <<"U+10435", <<"U+1040D">>>>, <<"U+10436", <<"U+1040E">>>>,
    <<"U+10437", <<"U+1040F">>>>, <<"U+10438", <<"U+10410">>>>,
    <<"U+10439", <<"U+10411">>>>, <<"U+1043A", <<"U+10412">>>>,
    <<"U+1043B", <<"U+10413">>>>, <<"U+1043C", <<"U+10414">>>>,
    <<"U+1043D", <<"U+10415">>>>, <<"U+1043E", <<"U+10416">>>>,
    <<"U+1043F", <<"U+10417">>>>, <<"U+10440", <<"U+10418">>>>,
    <<"U+10441", <<"U+10419">>>>, <<"U+10442", <<"U+1041A">>>>,
    <<"U+10443", <<"U+1041B">>>>, <<"U+10444", <<"U+1041C">>>>,
    <<"U+10445", <<"U+1041D">>>>, <<"U+10446", <<"U+1041E">>>>,
    <<"U+10447", <<"U+1041F">>>>, <<"U+10448", <<"U+10420">>>>,
    <<"U+10449", <<"U+10421">>>>, <<"U+1044A", <<"U+10422">>>>,
    <<"U+1044B", <<"U+10423">>>>, <<"U+1044C", <<"U+10424">>>>,
    <<"U+1044D", <<"U+10425">>>>, <<"U+1044E", <<"U+10426">>>>,
    <<"U+1044F", <<"U+10427">>>>, <<"U+104D8", <<"U+104B0">>>>,
    <<"U+104D9", <<"U+104B1">>>>, <<"U+104DA", <<"U+104B2">>>>,
    <<"U+104DB", <<"U+104B3">>>>, <<"U+104DC", <<"U+104B4">>>>,
    <<"U+104DD", <<"U+104B5">>>>, <<"U+104DE", <<"U+104B6">>>>,
    <<"U+104DF", <<"U+104B7">>>>, <<"U+104E0", <<"U+104B8">>>>,
    <<"U+104E1", <<"U+104B9">>>>, <<"U+104E2", <<"U+104BA">>>>,
    <<"U+104E3", <<"U+104BB">>>>, <<"U+104E4", <<"U+104BC">>>>,
    <<"U+104E5", <<"U+104BD">>>>, <<"U+104E6", <<"U+104BE">>>>,
    <<"U+104E7", <<"U+104BF">>>>, <<"U+104E8", <<"U+104C0">>>>,
    <<"U+104E9", <<"U+104C1">>>>, <<"U+104EA", <<"U+104C2">>>>,
    <<"U+104EB", <<"U+104C3">>>>, <<"U+104EC", <<"U+104C4">>>>,
    <<"U+104ED", <<"U+104C5">>>>, <<"U+104EE", <<"U+104C6">>>>,
    <<"U+104EF", <<"U+104C7">>>>, <<"U+104F0", <<"U+104C8">>>>,
    <<"U+104F1", <<"U+104C9">>>>, <<"U+104F2", <<"U+104CA">>>>,
    <<"U+104F3", <<"U+104CB">>>>, <<"U+104F4", <<"U+104CC">>>>,
    <<"U+104F5", <<"U+104CD">>>>, <<"U+104F6", <<"U+104CE">>>>,
    <<"U+104F7", <<"U+104CF">>>>, <<"U+104F8", <<"U+104D0">>>>,
    <<"U+104F9", <<"U+104D1">>>>, <<"U+104FA", <<"U+104D2">>>>,
    <<"U+104FB", <<"U+104D3">>>>, <<"U+10597", <<"U+10570">>>>,
    <<"U+10598", <<"U+10571">>>>, <<"U+10599", <<"U+10572">>>>,
    <<"U+1059A", <<"U+10573">>>>, <<"U+1059B", <<"U+10574">>>>,
    <<"U+1059C", <<"U+10575">>>>, <<"U+1059D", <<"U+10576">>>>,
    <<"U+1059E", <<"U+10577">>>>, <<"U+1059F", <<"U+10578">>>>,
    <<"U+105A0", <<"U+10579">>>>, <<"U+105A1", <<"U+1057A">>>>,
    <<"U+105A3", <<"U+1057C">>>>, <<"U+105A4", <<"U+1057D">>>>,
    <<"U+105A5", <<"U+1057E">>>>, <<"U+105A6", <<"U+1057F">>>>,
    <<"U+105A7", <<"U+10580">>>>, <<"U+105A8", <<"U+10581">>>>,
    <<"U+105A9", <<"U+10582">>>>, <<"U+105AA", <<"U+10583">>>>,
    <<"U+105AB", <<"U+10584">>>>, <<"U+105AC", <<"U+10585">>>>,
    <<"U+105AD", <<"U+10586">>>>, <<"U+105AE", <<"U+10587">>>>,
    <<"U+105AF", <<"U+10588">>>>, <<"U+105B0", <<"U+10589">>>>,
    <<"U+105B1", <<"U+1058A">>>>, <<"U+105B3", <<"U+1058C">>>>,
    <<"U+105B4", <<"U+1058D">>>>, <<"U+105B5", <<"U+1058E">>>>,
    <<"U+105B6", <<"U+1058F">>>>, <<"U+105B7", <<"U+10590">>>>,
    <<"U+105B8", <<"U+10591">>>>, <<"U+105B9", <<"U+10592">>>>,
    <<"U+105BB", <<"U+10594">>>>, <<"U+105BC", <<"U+10595">>>>,
    <<"U+10CC0", <<"U+10C80">>>>, <<"U+10CC1", <<"U+10C81">>>>,
    <<"U+10CC2", <<"U+10C82">>>>, <<"U+10CC3", <<"U+10C83">>>>,
    <<"U+10CC4", <<"U+10C84">>>>, <<"U+10CC5", <<"U+10C85">>>>,
    <<"U+10CC6", <<"U+10C86">>>>, <<"U+10CC7", <<"U+10C87">>>>,
    <<"U+10CC8", <<"U+10C88">>>>, <<"U+10CC9", <<"U+10C89">>>>,
    <<"U+10CCA", <<"U+10C8A">>>>, <<"U+10CCB", <<"U+10C8B">>>>,
    <<"U+10CCC", <<"U+10C8C">>>>, <<"U+10CCD", <<"U+10C8D">>>>,
    <<"U+10CCE", <<"U+10C8E">>>>, <<"U+10CCF", <<"U+10C8F">>>>,
    <<"U+10CD0", <<"U+10C90">>>>, <<"U+10CD1", <<"U+10C91">>>>,
    <<"U+10CD2", <<"U+10C92">>>>, <<"U+10CD3", <<"U+10C93">>>>,
    <<"U+10CD4", <<"U+10C94">>>>, <<"U+10CD5", <<"U+10C95">>>>,
    <<"U+10CD6", <<"U+10C96">>>>, <<"U+10CD7", <<"U+10C97">>>>,
    <<"U+10CD8", <<"U+10C98">>>>, <<"U+10CD9", <<"U+10C99">>>>,
    <<"U+10CDA", <<"U+10C9A">>>>, <<"U+10CDB", <<"U+10C9B">>>>,
    <<"U+10CDC", <<"U+10C9C">>>>, <<"U+10CDD", <<"U+10C9D">>>>,
    <<"U+10CDE", <<"U+10C9E">>>>, <<"U+10CDF", <<"U+10C9F">>>>,
    <<"U+10CE0", <<"U+10CA0">>>>, <<"U+10CE1", <<"U+10CA1">>>>,
    <<"U+10CE2", <<"U+10CA2">>>>, <<"U+10CE3", <<"U+10CA3">>>>,
    <<"U+10CE4", <<"U+10CA4">>>>, <<"U+10CE5", <<"U+10CA5">>>>,
    <<"U+10CE6", <<"U+10CA6">>>>, <<"U+10CE7", <<"U+10CA7">>>>,
    <<"U+10CE8", <<"U+10CA8">>>>, <<"U+10CE9", <<"U+10CA9">>>>,
    <<"U+10CEA", <<"U+10CAA">>>>, <<"U+10CEB", <<"U+10CAB">>>>,
    <<"U+10CEC", <<"U+10CAC">>>>, <<"U+10CED", <<"U+10CAD">>>>,
    <<"U+10CEE", <<"U+10CAE">>>>, <<"U+10CEF", <<"U+10CAF">>>>,
    <<"U+10CF0", <<"U+10CB0">>>>, <<"U+10CF1", <<"U+10CB1">>>>,
    <<"U+10CF2", <<"U+10CB2">>>>, <<"U+10D70", <<"U+10D50">>>>,
    <<"U+10D71", <<"U+10D51">>>>, <<"U+10D72", <<"U+10D52">>>>,
    <<"U+10D73", <<"U+10D53">>>>, <<"U+10D74", <<"U+10D54">>>>,
    <<"U+10D75", <<"U+10D55">>>>, <<"U+10D76", <<"U+10D56">>>>,
    <<"U+10D77", <<"U+10D57">>>>, <<"U+10D78", <<"U+10D58">>>>,
    <<"U+10D79", <<"U+10D59">>>>, <<"U+10D7A", <<"U+10D5A">>>>,
    <<"U+10D7B", <<"U+10D5B">>>>, <<"U+10D7C", <<"U+10D5C">>>>,
    <<"U+10D7D", <<"U+10D5D">>>>, <<"U+10D7E", <<"U+10D5E">>>>,
    <<"U+10D7F", <<"U+10D5F">>>>, <<"U+10D80", <<"U+10D60">>>>,
    <<"U+10D81", <<"U+10D61">>>>, <<"U+10D82", <<"U+10D62">>>>,
    <<"U+10D83", <<"U+10D63">>>>, <<"U+10D84", <<"U+10D64">>>>,
    <<"U+10D85", <<"U+10D65">>>>, <<"U+118C0", <<"U+118A0">>>>,
    <<"U+118C1", <<"U+118A1">>>>, <<"U+118C2", <<"U+118A2">>>>,
    <<"U+118C3", <<"U+118A3">>>>, <<"U+118C4", <<"U+118A4">>>>,
    <<"U+118C5", <<"U+118A5">>>>, <<"U+118C6", <<"U+118A6">>>>,
    <<"U+118C7", <<"U+118A7">>>>, <<"U+118C8", <<"U+118A8">>>>,
    <<"U+118C9", <<"U+118A9">>>>, <<"U+118CA", <<"U+118AA">>>>,
    <<"U+118CB", <<"U+118AB">>>>, <<"U+118CC", <<"U+118AC">>>>,
    <<"U+118CD", <<"U+118AD">>>>, <<"U+118CE", <<"U+118AE">>>>,
    <<"U+118CF", <<"U+118AF">>>>, <<"U+118D0", <<"U+118B0">>>>,
    <<"U+118D1", <<"U+118B1">>>>, <<"U+118D2", <<"U+118B2">>>>,
    <<"U+118D3", <<"U+118B3">>>>, <<"U+118D4", <<"U+118B4">>>>,
    <<"U+118D5", <<"U+118B5">>>>, <<"U+118D6", <<"U+118B6">>>>,
    <<"U+118D7", <<"U+118B7">>>>, <<"U+118D8", <<"U+118B8">>>>,
    <<"U+118D9", <<"U+118B9">>>>, <<"U+118DA", <<"U+118BA">>>>,
    <<"U+118DB", <<"U+118BB">>>>, <<"U+118DC", <<"U+118BC">>>>,
    <<"U+118DD", <<"U+118BD">>>>, <<"U+118DE", <<"U+118BE">>>>,
    <<"U+118DF", <<"U+118BF">>>>, <<"U+16E60", <<"U+16E40">>>>,
    <<"U+16E61", <<"U+16E41">>>>, <<"U+16E62", <<"U+16E42">>>>,
    <<"U+16E63", <<"U+16E43">>>>, <<"U+16E64", <<"U+16E44">>>>,
    <<"U+16E65", <<"U+16E45">>>>, <<"U+16E66", <<"U+16E46">>>>,
    <<"U+16E67", <<"U+16E47">>>>, <<"U+16E68", <<"U+16E48">>>>,
    <<"U+16E69", <<"U+16E49">>>>, <<"U+16E6A", <<"U+16E4A">>>>,
    <<"U+16E6B", <<"U+16E4B">>>>, <<"U+16E6C", <<"U+16E4C">>>>,
    <<"U+16E6D", <<"U+16E4D">>>>, <<"U+16E6E", <<"U+16E4E">>>>,
    <<"U+16E6F", <<"U+16E4F">>>>, <<"U+16E70", <<"U+16E50">>>>,
    <<"U+16E71", <<"U+16E51">>>>, <<"U+16E72", <<"U+16E52">>>>,
    <<"U+16E73", <<"U+16E53">>>>, <<"U+16E74", <<"U+16E54">>>>,
    <<"U+16E75", <<"U+16E55">>>>, <<"U+16E76", <<"U+16E56">>>>,
    <<"U+16E77", <<"U+16E57">>>>, <<"U+16E78", <<"U+16E58">>>>,
    <<"U+16E79", <<"U+16E59">>>>, <<"U+16E7A", <<"U+16E5A">>>>,
    <<"U+16E7B", <<"U+16E5B">>>>, <<"U+16E7C", <<"U+16E5C">>>>,
    <<"U+16E7D", <<"U+16E5D">>>>, <<"U+16E7E", <<"U+16E5E">>>>,
    <<"U+16E7F", <<"U+16E5F">>>>, <<"U+16EBB", <<"U+16EA0">>>>,
    <<"U+16EBC", <<"U+16EA1">>>>, <<"U+16EBD", <<"U+16EA2">>>>,
    <<"U+16EBE", <<"U+16EA3">>>>, <<"U+16EBF", <<"U+16EA4">>>>,
    <<"U+16EC0", <<"U+16EA5">>>>, <<"U+16EC1", <<"U+16EA6">>>>,
    <<"U+16EC2", <<"U+16EA7">>>>, <<"U+16EC3", <<"U+16EA8">>>>,
    <<"U+16EC4", <<"U+16EA9">>>>, <<"U+16EC5", <<"U+16EAA">>>>,
    <<"U+16EC6", <<"U+16EAB">>>>, <<"U+16EC7", <<"U+16EAC">>>>,
    <<"U+16EC8", <<"U+16EAD">>>>, <<"U+16EC9", <<"U+16EAE">>>>,
    <<"U+16ECA", <<"U+16EAF">>>>, <<"U+16ECB", <<"U+16EB0">>>>,
    <<"U+16ECC", <<"U+16EB1">>>>, <<"U+16ECD", <<"U+16EB2">>>>,
    <<"U+16ECE", <<"U+16EB3">>>>, <<"U+16ECF", <<"U+16EB4">>>>,
    <<"U+16ED0", <<"U+16EB5">>>>, <<"U+16ED1", <<"U+16EB6">>>>,
    <<"U+16ED2", <<"U+16EB7">>>>, <<"U+16ED3", <<"U+16EB8">>>>,
    <<"U+1E922", <<"U+1E900">>>>, <<"U+1E923", <<"U+1E901">>>>,
    <<"U+1E924", <<"U+1E902">>>>, <<"U+1E925", <<"U+1E903">>>>,
    <<"U+1E926", <<"U+1E904">>>>, <<"U+1E927", <<"U+1E905">>>>,
    <<"U+1E928", <<"U+1E906">>>>, <<"U+1E929", <<"U+1E907">>>>,
    <<"U+1E92A", <<"U+1E908">>>>, <<"U+1E92B", <<"U+1E909">>>>,
    <<"U+1E92C", <<"U+1E90A">>>>, <<"U+1E92D", <<"U+1E90B">>>>,
    <<"U+1E92E", <<"U+1E90C">>>>, <<"U+1E92F", <<"U+1E90D">>>>,
    <<"U+1E930", <<"U+1E90E">>>>, <<"U+1E931", <<"U+1E90F">>>>,
    <<"U+1E932", <<"U+1E910">>>>, <<"U+1E933", <<"U+1E911">>>>,
    <<"U+1E934", <<"U+1E912">>>>, <<"U+1E935", <<"U+1E913">>>>,
    <<"U+1E936", <<"U+1E914">>>>, <<"U+1E937", <<"U+1E915">>>>,
    <<"U+1E938", <<"U+1E916">>>>, <<"U+1E939", <<"U+1E917">>>>,
    <<"U+1E93A", <<"U+1E918">>>>, <<"U+1E93B", <<"U+1E919">>>>,
    <<"U+1E93C", <<"U+1E91A">>>>, <<"U+1E93D", <<"U+1E91B">>>>,
    <<"U+1E93E", <<"U+1E91C">>>>, <<"U+1E93F", <<"U+1E91D">>>>,
    <<"U+1E940", <<"U+1E91E">>>>, <<"U+1E941", <<"U+1E91F">>>>,
    <<"U+1E942", <<"U+1E920">>>>, <<"U+1E943", <<"U+1E921">>>>
  }

\* the characters toUpperCase changes
LowerCase == {m[1] : m \in UpperCasePairs}

\* the upper-case form of a character: the characters of its mapping, or the
\* character itself when it has none
UpperChar(c) ==
  IF c \in LowerCase
  THEN (CHOOSE m \in UpperCasePairs : m[1] = c)[2]
  ELSE <<c>>

\* s.toUpperCase()
RECURSIVE ToUpperCase(_)
ToUpperCase(s) ==
  IF s = << >> THEN << >> ELSE UpperChar(Head(s)) \o ToUpperCase(Tail(s))

\* the characters String.prototype.trim strips: the white space and the line
\* terminators of ECMAScript (tab, line feed, vertical tab, form feed,
\* carriage return, space, no-break space, the byte order mark, the space
\* separators and the line and paragraph separators)
WhiteSpace ==
  { " ", "\t", "\n", "\r", "\f", "", " ", "﻿",
    "U+1680", "U+2000", "U+2001", "U+2002", "U+2003", "U+2004", "U+2005",
    "U+2006", "U+2007", "U+2008", "U+2009", "U+200A", "U+2028", "U+2029",
    "U+202F", "U+205F", "U+3000" }

RECURSIVE TrimStart(_)
TrimStart(s) ==
  IF s # << >> /\ Head(s) \in WhiteSpace THEN TrimStart(Tail(s)) ELSE s

RECURSIVE TrimEnd(_)
TrimEnd(s) ==
  IF s # << >> /\ s[Len(s)] \in WhiteSpace
  THEN TrimEnd(SubSeq(s, 1, Len(s) - 1)) ELSE s

\* s.trim()
Trim(s) == TrimEnd(TrimStart(s))

\* JavaScript truthiness of a string | null | undefined value
TruthyString(v) == v.k = "string" /\ v.s # << >>

\* the brokers of lines 690-694 and 720-722
SpecialBrokers ==
  { <<"I", "N", "T", "E", "R", "A", "C", "T", "I", "V", "E", "_",
      "B", "R", "O", "K", "E", "R", "S">>,
    <<"I", "B", "K", "R">>,
    <<"S", "C", "H", "W", "A", "B">> }

\* the brokerId arguments explored: absent, empty, blank, plain brokers and
\* special brokers in several letter cases
BrokerInputs ==
  { Undefined,
    Str(<< >>),
    Str(<<" ">>),
    Str(<<"\t", " ", "\n">>),
    Str(<<"", " ", "﻿">>),
    Str(<<"é", "ß">>),
    Str(<<"a", "l", "p", "a", "c", "a">>),
    Str(<<"A", "l", "p", "a", "c", "a">>),
    Str(<<"i", "b", "k", "r">>),
    Str(<<"I", "b", "K", "r">>),
    Str(<<" ", "i", "b", "k", "r">>),
    Str(<<"S", "C", "H", "W", "A", "B">>),
    Str(<<"s", "c", "h", "w", "a", "b">>),
    Str(<<"i", "n", "t", "e", "r", "a", "c", "t", "i", "v", "e", "_",
          "b", "r", "o", "k", "e", "r", "s">>),
    Str(<<"U+0131", "b", "k", "r">>),
    Str(<<"U+017F", "c", "h", "w", "a", "b">>),
    Str(<<"U+FB01", "d", "e", "l", "i", "t", "y">>) }

\* the brokerId argument of the link creations that are retried
LinkBrokerInputs == {Str(<<"a", "l", "p", "a", "c", "a">>)}

SnapTradeBrokerId_NoUpper(brokerId) ==
  IF TruthyString(brokerId) /\ Trim(brokerId.s) # << >>
  THEN IF ToUpperCase(brokerId.s) \in SpecialBrokers
       THEN Null
       ELSE brokerId
  ELSE brokerId

\* lines 680-712: snapTradeBrokerId
SnapTradeBrokerId(brokerId) ==
  IF TruthyString(brokerId) /\ Trim(brokerId.s) # << >>
  THEN IF ToUpperCase(brokerId.s) \in SpecialBrokers
       THEN Null
       ELSE Str(ToUpperCase(brokerId.s))
  ELSE brokerId

\* lines 717-726: the broker parameter of loginSnapTradeUser, if any
BrokerParam(snapTradeBrokerId) ==
  IF /\ TruthyString(snapTradeBrokerId)
     /\ Trim(snapTradeBrokerId.s) # << >>
     /\ snapTradeBrokerId.s \notin SpecialBrokers
  THEN [passed |-> TRUE, broker |-> snapTradeBrokerId.s]
  ELSE [passed |-> FALSE, broker |-> << >>]

\* createSnapTradeUserLink(userId, redirectUri, brokerId), lines 661-678
StartCreateLink(p, brokerId) ==
  /\ CanStart(p)
  /\ calls' = calls + 1
  /\ LET l == [Fresh("createLink", FALSE) EXCEPT !.brokerId = brokerId]
     IN IF ~sdk
        THEN Goto(p, Unwind(<< >>, Throw("SnapTrade SDK not initialized"), l))
        ELSE Goto(p, [pc |-> "gs_read", stack |-> <<"createLink">>,
                      loc |-> l])
  /\ UNCHANGED <<sdk, conc, budget, assets, clock, stamps, row, remote, issued>>

\* snaptrade.authentication.loginSnapTradeUser: what it answers
LoginOutcomes(secret) ==
  IF Authentic(UserId, secret)
  THEN {"ok", "nodata", "nouri", "fail"} ELSE {"fail", "unregistered"}

\* lines 714-749 and the catches of lines 766-838
ClLogin(p, o) ==
  /\ pc[p] = "cl_login"
  /\ o \in LoginOutcomes(loc[p].userSecret)
  /\ LET l == [loc[p] EXCEPT
                 !.remotes = Append(@, "login"),
                 !.login   = o,
                 !.broker  = BrokerParam(SnapTradeBrokerId(loc[p].brokerId))]
     IN CASE o = "ok" ->
               Goto(p, At(p, "cl_update", [l EXCEPT !.url = "portal"]))
          [] o = "nodata" ->
               Goto(p, Unwind(stack[p], Throw(LinkError(
                 "Failed to generate connection portal URL - no data returned")),
                 l))
          [] o = "nouri" ->
               Goto(p, Unwind(stack[p], Throw(LinkError(
                 "Failed to generate connection portal URL - no redirect URI")),
                 l))
          [] o = "unregistered" ->
               \* lines 767-770: message "User not registered with SnapTrade"
               Goto(p, EnterRegister(Append(stack[p], "linkRegister"), l))
          [] OTHER ->
               Goto(p, Unwind(stack[p], Throw(LinkError("Request failed")), l))
  /\ UNCHANGED <<sdk, conc, budget, assets, clock, stamps, row, remote, issued, calls>>

\* lines 753-762: the update that records the connection attempt
LinkUpdate(r, snapTradeBrokerId, now) ==
  Update(r, r.secret, r.active,
         [EmptyData EXCEPT
            !.connection_started = now,
            !.broker_id = IF TruthyString(snapTradeBrokerId)
                          THEN snapTradeBrokerId.s
                          ELSE <<"a", "n", "y">>])

\* lines 751-764
ClUpdate(p) ==
  /\ pc[p] = "cl_update"
  /\ row' = LinkUpdate(row, SnapTradeBrokerId(loc[p].brokerId), clock)
  /\ Goto(p, Unwind(stack[p], Value(NoSecret),
                    [loc[p] EXCEPT !.writes = @ + 1,
                                   !.remotes = Append(@, "update")]))
  /\ UNCHANGED <<sdk, conc, budget, assets, clock, stamps, remote, issued, calls>>

\* lines 773 and 811: `return createSnapTradeUserLink(userId, redirectUri,
\* brokerId)`: the function is invoked again and its outcome is the outcome
\* of this call (the promise is returned, not awaited, so no catch of this
\* invocation sees it); the histories of the call are kept
ClRetry(p) ==
  /\ pc[p] = "cl_retry"
  /\ loc[p].depth < MaxRetries
  /\ Goto(p, [pc |-> "gs_read", stack |-> Append(stack[p], "createLink"),
              loc |-> [NoLoc EXCEPT
                         !.op = loc[p].op, !.brokerId = loc[p].brokerId,
                         !.startRow = loc[p].startRow,
                         !.startAssets = loc[p].startAssets,
                         !.overlap = loc[p].overlap,
                         !.remotes = loc[p].remotes,
                         !.broker = loc[p].broker,
                         !.login = loc[p].login,
                         !.writes = loc[p].writes,
                         !.depth = loc[p].depth + 1]])
  /\ UNCHANGED <<sdk, conc, budget, assets, clock, stamps, row, remote, issued, calls>>

\* lines 780-784: the remote identity is deleted (without a secret); an error
\* is caught at line 813 and the registration error is raised
ClDelete(p, o) ==
  /\ pc[p] = "cl_delete"
  /\ o \in DeleteOutcomes
  /\ LET l == [loc[p] EXCEPT !.remotes = Append(@, "delete")]
     IN IF o = "ok"
        THEN /\ remote' = Forget(UserId)
             /\ Goto(p, At(p, "cl_reregister", l))
        ELSE /\ UNCHANGED remote
             /\ Goto(p, Unwind(stack[p],
                               Throw(LinkError(RegisterFailure(l.regError))),
                               l))
  /\ UNCHANGED <<sdk, conc, budget, assets, clock, stamps, row, issued, calls>>

\* lines 786-792: the same user id is registered again
ClReregister(p, o) ==
  /\ pc[p] = "cl_reregister"
  /\ o \in RegisterOutcomes(UserId)
  /\ LET l == [loc[p] EXCEPT !.remotes = Append(@, "reregister")]
     IN IF o = "ok"
        THEN /\ remote' = remote \cup
                    {[id |-> UserId, secret |-> RealSecret(issued + 1)]}
             /\ issued' = issued + 1
             /\ Goto(p, At(p, "cl_upsert",
                        [l EXCEPT !.response = RealSecret(issued + 1)]))
        ELSE /\ UNCHANGED <<remote, issued>>
             /\ Goto(p, Unwind(stack[p],
                               Throw(LinkError(RegisterFailure(l.regError))),
                               l))
  /\ UNCHANGED <<sdk, conc, budget, assets, clock, stamps, row, calls>>

\* lines 797-808: the row the upsert of the new registration leaves
RecreatedRow(userSecret, now) ==
  Row(userSecret, TRUE,
      [EmptyData EXCEPT !.registered_at = now, !.snap_trade_user_id = UserId])

\* lines 794-811
ClUpsert(p) ==
  /\ pc[p] = "cl_upsert"
  /\ row' = RecreatedRow(loc[p].response, clock)
  /\ Goto(p, At(p, "cl_retry",
              [loc[p] EXCEPT !.writes = @ + 1,
                             !.remotes = Append(@, "store")]))
  /\ UNCHANGED <<sdk, conc, budget, assets, clock, stamps, remote, issued, calls>>

----------------------------------------------------------------------------
(* handleSnapTradeCallback *)

\* account.brokerage.name of the accounts the remote holds
BrokerNameOf(a) == IF a = "a1" THEN "Alpaca" ELSE "Interactive Brokers"

\* brokerName.toUpperCase().includes("INTERACTIVE")
IsInteractive(a) == BrokerNameOf(a) = "Interactive Brokers"

\* the (authorizationId, brokerage) pairs the callback is called with
CallbackInputs ==
  { [authorizationId |-> "auth1", brokerage |-> "ALPACA"],
    [authorizationId |-> "none",  brokerage |-> "none"] }

\* lines 1165-1187: the Asset row of a position
PositionAsset(position, account) ==
  LET quantity   == position.quantity
      price      == position.price
      bookValue  == position.bookValue
      totalValue == quantity * price
  IN [ name              |-> position.symbol,
       value             |-> totalValue,
       acquisition_value |-> IF bookValue # 0 THEN bookValue ELSE totalValue,
       symbol            |-> position.symbol,
       price_per_share   |-> price,
       purchase_price    |-> JsDiv(bookValue, quantity),
       quantity          |-> quantity,
       asset_type        |-> "stock",
       account_id        |-> account ]

\* lines 1155-1156: the rows of the positions, in order; a position without
\* a symbol is skipped
RECURSIVE PositionAssets(_, _)
PositionAssets(ps, account) ==
  IF ps = << >> THEN << >>
  ELSE (IF Head(ps).symbol = ""
        THEN << >> ELSE <<PositionAsset(Head(ps), account)>>)
       \o PositionAssets(Tail(ps), account)

\* lines 1208-1216
IsCallbackCash(balance, account) ==
  LET isCash == balance.cash \/ balance.type = "CASH"
  IN \/ isCash /\ balance.amount > 0
     \/ IsInteractive(account) /\ balance.amount > 0

\* lines 1222-1246: the Asset row of a cash balance
CashAsset(balance, account) ==
  [ name              |-> "Cash",
    value             |-> balance.amount,
    acquisition_value |-> balance.amount,
    symbol            |-> "CASH",
    price_per_share   |-> balance.amount,
    purchase_price    |-> Num(balance.amount),
    quantity          |-> 1,
    asset_type        |-> "cash",
    account_id        |-> account ]

RECURSIVE CashAssets(_, _)
CashAssets(bs, account) ==
  IF bs = << >> THEN << >>
  ELSE (IF IsCallbackCash(Head(bs), account)
        THEN <<CashAsset(Head(bs), account)>> ELSE << >>)
       \o CashAssets(Tail(bs), account)

\* handleSnapTradeCallback(userId, authorizationId, brokerage),
\* lines 1046-1058
StartHandleCallback(p, in) ==
  /\ CanStart(p)
  /\ calls' = calls + 1
  /\ LET l == [Fresh("handleCallback", FALSE) EXCEPT
                 !.authorizationId = in.authorizationId,
                 !.brokerage = in.brokerage]
     IN IF ~sdk
        THEN Goto(p, Unwind(<< >>, Throw("SnapTrade SDK not initialized"), l))
        ELSE Goto(p, [pc |-> "gs_read", stack |-> <<"handleCallback">>,
                      loc |-> l])
  /\ UNCHANGED <<sdk, conc, budget, assets, clock, stamps, row, remote, issued>>

\* lines 1063-1070: the broker_data to preserve is read
CbRead(p) ==
  /\ pc[p] = "cb_read"
  /\ Goto(p, At(p, "cb_update",
              [loc[p] EXCEPT !.existingBrokerData =
                               IF row.present THEN row.data ELSE EmptyData]))
  /\ UNCHANGED <<sdk, conc, budget, assets, clock, stamps, row, remote, issued, calls>>

\* lines 1072-1086: the update that marks the connection active
CallbackUpdate(r, existingBrokerData, authorizationId, brokerage, now) ==
  Update(r, r.secret, TRUE,
         [existingBrokerData EXCEPT
            !.connected_at     = now,
            !.brokerage        = IF brokerage # "none" THEN brokerage ELSE @,
            !.authorization_id = IF authorizationId # "none"
                                 THEN authorizationId ELSE @])

\* lines 1072-1088
CbUpdate(p) ==
  /\ pc[p] = "cb_update"
  /\ LET l == [loc[p] EXCEPT !.writes = @ + 1,
                             !.remotes = Append(@, "activate")]
     IN /\ row' = CallbackUpdate(row, l.existingBrokerData, l.authorizationId,
                                 l.brokerage, clock)
        /\ IF l.authorizationId # "none"
           THEN Goto(p, At(p, "cb_refresh", l))
           ELSE Goto(p, At(p, "cb_list", l))
  /\ UNCHANGED <<sdk, conc, budget, assets, clock, stamps, remote, issued, calls>>

RefreshFailure_Fatal(p, l) == Unwind(stack[p], Throw("Request failed"), l)

\* lines 1106-1112: the catch around the refresh only logs
RefreshFailure(p, l) == At(p, "cb_list", l)

\* lines 1089-1113: refreshBrokerageAuthorization; a failure is ignored
CbRefresh(p, o) ==
  /\ pc[p] = "cb_refresh"
  /\ LET l == [loc[p] EXCEPT !.remotes = Append(@, "refresh_" \o o)]
     IN IF o = "ok"
        THEN Goto(p, At(p, "cb_list", l))
        ELSE Goto(p, RefreshFailure(p, l))
  /\ UNCHANGED <<sdk, conc, budget, assets, clock, stamps, row, remote, issued, calls>>

\* lines 1115-1124: the accounts are listed
CbList(p, o, as) ==
  /\ pc[p] = "cb_list"
  /\ o \in ListOutcomes(loc[p].userSecret)
  /\ LET l == [loc[p] EXCEPT !.listed = o, !.remotes = Append(@, "list")]
     IN CASE o = "ok" ->
               Goto(p, At(p, "cb_category", [l EXCEPT !.accounts = as]))
          [] o = "nodata" ->
               Goto(p, Unwind(stack[p], Throw("Failed to fetch accounts"), l))
          [] OTHER ->
               Goto(p, Unwind(stack[p], Throw("Request failed"), l))
  /\ UNCHANGED <<sdk, conc, budget, assets, clock, stamps, row, remote, issued, calls>>

\* the loop of line 1147 moves on to the next account, or line 1259 returns
NextCallbackAccount(p, l) ==
  IF l.i + 1 > Len(l.accounts)
  THEN Unwind(stack[p], Value(NoSecret), l)
  ELSE At(p, "cb_positions", [l EXCEPT !.i = @ + 1])

CategoryFailure_Ignored(p, message, l) ==
  NextCallbackAccount(p, [l EXCEPT !.i = 0])

\* lines 1133-1141: a failed lookup of the category is fatal
CategoryFailure(p, message, l) ==
  Unwind(stack[p], Throw(message), l)

\* lines 1126-1147: the lookup of the 'investments' category
CbCategory(p, o) ==
  /\ pc[p] = "cb_category"
  /\ LET l == [loc[p] EXCEPT !.remotes = Append(@, "category_" \o o)]
     IN CASE o = "ok" ->
               Goto(p, NextCallbackAccount(p, [l EXCEPT !.i = 0]))
          [] o = "error" ->
               Goto(p, CategoryFailure(p, "Category error: " \o "Request failed",
                                       l))
          [] OTHER ->
               Goto(p, CategoryFailure(p, "Category not found", l))
  /\ UNCHANGED <<sdk, conc, budget, assets, clock, stamps, row, remote, issued, calls>>

RECURSIVE InsertAssets_Upsert(_, _)
InsertAssets_Upsert(stored, rows) ==
  IF rows = << >> THEN stored
  ELSE InsertAssets_Upsert(
         IF \E k \in 1..Len(stored) : stored[k] = Head(rows)
         THEN stored ELSE Append(stored, Head(rows)),
         Tail(rows))

\* supabase.from("assets").insert(...) of lines 1165 and 1224, once per row:
\* a new row each time, whatever the table holds
InsertAssets(stored, rows) == stored \o rows

\* lines 1146-1156: the positions of the account are fetched; the rows of
\* those with a symbol await their insert
CbPositions(p, o) ==
  /\ pc[p] = "cb_positions"
  /\ LET l       == [loc[p] EXCEPT !.pos = Append(@, o)]
         account == l.accounts[l.i]
         rows    == PositionAssets(PositionsOf(account), account)
     IN CASE o = "ok" /\ rows # << >> ->
               Goto(p, At(p, "cb_insert_position", [l EXCEPT !.pending = rows]))
          [] o = "ok" /\ rows = << >> ->
               Goto(p, At(p, "cb_balances", l))
          [] o = "nodata" ->
               Goto(p, At(p, "cb_balances", l))
          [] OTHER ->
               Goto(p, Unwind(stack[p], Throw("Request failed"), l))
  /\ UNCHANGED <<sdk, conc, budget, assets, clock, stamps, row, remote, issued, calls>>

\* lines 1165-1195: one position is inserted as an Asset row (the result of
\* the insert is only logged); the balances follow the last one
CbInsertPosition(p) ==
  /\ pc[p] = "cb_insert_position"
  /\ assets' = InsertAssets(assets, <<Head(loc[p].pending)>>)
  /\ LET l == [loc[p] EXCEPT !.pending = Tail(@), !.inserted = @ + 1]
     IN IF l.pending = << >>
        THEN Goto(p, At(p, "cb_balances", l))
        ELSE Goto(p, At(p, "cb_insert_position", l))
  /\ UNCHANGED <<sdk, conc, budget, clock, stamps, row, remote, issued, calls>>

\* lines 1199-1217: the balances of the account are fetched; the rows of the
\* cash balances await their insert
CbBalances(p, o) ==
  /\ pc[p] = "cb_balances"
  /\ LET l       == [loc[p] EXCEPT !.bal = Append(@, o)]
         account == l.accounts[l.i]
         rows    == CashAssets(BalancesOf(account), account)
     IN CASE o = "ok" /\ rows # << >> ->
               Goto(p, At(p, "cb_insert_cash", [l EXCEPT !.pending = rows]))
          [] o = "ok" /\ rows = << >> ->
               Goto(p, NextCallbackAccount(p, l))
          [] o = "nodata" ->
               Goto(p, NextCallbackAccount(p, l))
          [] OTHER ->
               Goto(p, Unwind(stack[p], Throw("Request failed"), l))
  /\ UNCHANGED <<sdk, conc, budget, assets, clock, stamps, row, remote, issued, calls>>

\* lines 1224-1252: one cash balance is inserted as an Asset row (the result
\* of the insert is only logged); the next account follows the last one
CbInsertCash(p) ==
  /\ pc[p] = "cb_insert_cash"
  /\ assets' = InsertAssets(assets, <<Head(loc[p].pending)>>)
  /\ LET l == [loc[p] EXCEPT !.pending = Tail(@), !.inserted = @ + 1]
     IN IF l.pending = << >>
        THEN Goto(p, NextCallbackAccount(p, l))
        ELSE Goto(p, At(p, "cb_insert_cash", l))
  /\ UNCHANGED <<sdk, conc, budget, clock, stamps, row, remote, issued, calls>>

----------------------------------------------------------------------------
(* The endpoints: POST /register, GET /status, POST /sync *)

\* what supabase.auth.getUser() gives: the user of the request, another
\* user, no user, an error, or an exception
AuthOutcomes == {"self", "other", "anonymous", "error", "throws"}

\* the catch of an endpoint: status 500 with the headers
ServerError(p, message, l) ==
  Unwind(<< >>, Value(NoSecret),
         WithHeaders([l EXCEPT !.status = 500, !.error = message]))

\* POST of register/route.ts, lines 10-37; body: what request.json() gives
\* ("invalid": it raises, "nouser": no userId, "user": the userId)
StartRegisterEndpoint(p, body, auth) ==
  /\ CanStart(p)
  /\ calls' = calls + 1
  /\ LET l == [Fresh("registerEndpoint", FALSE) EXCEPT
                 !.given = (body = "user"), !.auth = auth]
     IN IF body = "invalid"
        THEN Goto(p, ServerError(p, "Unexpected end of JSON input", l))
        ELSE IF body = "nouser"
        THEN Goto(p, Unwind(<< >>, Value(NoSecret), [l EXCEPT !.status = 400]))
        ELSE IF auth = "throws"
        THEN Goto(p, ServerError(p, "Request failed", l))
        ELSE IF auth \in {"anonymous", "error"}
        THEN Goto(p, Unwind(<< >>, Value(NoSecret), [l EXCEPT !.status = 401]))
        ELSE IF auth = "other"
        THEN Goto(p, Unwind(<< >>, Value(NoSecret), [l EXCEPT !.status = 403]))
        ELSE Goto(p, EnterRegister(<<"registerEndpoint">>, l))
  /\ UNCHANGED <<sdk, conc, budget, assets, clock, stamps, row, remote, issued>>

\* GET of status/route.ts, lines 8-10, and checkSnapTradeStatus
StartStatus(p) ==
  /\ CanStart(p)
  /\ calls' = calls + 1
  /\ LET l == Fresh("status", FALSE)
     IN IF ~sdk
        THEN Goto(p, ServerError(p, "SnapTrade SDK not initialized", l))
        ELSE Goto(p, [pc |-> "st_check", stack |-> << >>, loc |-> l])
  /\ UNCHANGED <<sdk, conc, budget, assets, clock, stamps, row, remote, issued>>

\* snaptrade.apiStatus.check() and the response, status/route.ts lines 12-37
StCheck(p, o) ==
  /\ pc[p] = "st_check"
  /\ LET l == [loc[p] EXCEPT !.remotes = Append(@, "status")]
     IN IF o = "ok"
        THEN Goto(p, Unwind(stack[p], Value(NoSecret),
                            WithHeaders([l EXCEPT !.status = 200])))
        ELSE Goto(p, ServerError(p, "Request failed", l))
  /\ UNCHANGED <<sdk, conc, budget, assets, clock, stamps, row, remote, issued, calls>>

\* the response of the catch of sync/route.ts, lines 72-88 (no headers)
SyncFailed(message, l) ==
  Unwind(<< >>, Value(NoSecret),
         [l EXCEPT !.status = 500, !.success = FALSE,
                   !.syncStatus = "failed", !.error = message,
                   !.syncAccounts = << >>, !.holdings = << >>])

\* POST of sync/route.ts, lines 12-45
StartSync(p, auth) ==
  /\ CanStart(p)
  /\ calls' = calls + 1
  /\ LET l == [Fresh("sync", FALSE) EXCEPT !.auth = auth]
     IN IF auth = "throws"
        THEN Goto(p, SyncFailed("Request failed", l))
        ELSE IF auth \in {"error", "anonymous"}
        THEN Goto(p, Unwind(<< >>, Value(NoSecret), [l EXCEPT !.status = 401]))
        ELSE LET l1 == [l EXCEPT !.syncStatus = "success"]
             IN \* fetchSnapTradeAccounts(user.id), lines 845-852
                IF ~sdk
                THEN Goto(p, Unwind(<<"syncAccounts">>,
                                    Throw("SnapTrade SDK not initialized"), l1))
                ELSE Goto(p, [pc |-> "gs_read",
                              stack |-> <<"syncAccounts", "fetchAccounts">>,
                              loc |-> l1])
  /\ UNCHANGED <<sdk, conc, budget, assets, clock, stamps, row, remote, issued>>

\* fetchSnapTradeAccounts, lines 854-864
FaList(p, o, as) ==
  /\ pc[p] = "fa_list"
  /\ o \in ListOutcomes(loc[p].userSecret)
  /\ LET l == [loc[p] EXCEPT !.remotes = Append(@, "list")]
     IN CASE o = "ok" ->
               Goto(p, Unwind(stack[p], Value(NoSecret),
                              [l EXCEPT !.syncAccounts = as]))
          [] o = "nodata" ->
               Goto(p, Unwind(stack[p], Throw("Failed to fetch accounts"), l))
          [] OTHER ->
               Goto(p, Unwind(stack[p], Throw("Request failed"), l))
  /\ UNCHANGED <<sdk, conc, budget, assets, clock, stamps, row, remote, issued, calls>>

\* sync/route.ts lines 55-56: fetchSnapTradeHoldings(user.id) is called (its
\* getUserSecret starts afresh)
SyHoldings(p) ==
  /\ pc[p] = "sy_holdings"
  /\ LET l == [loc[p] EXCEPT
                 !.data = NoRow, !.readOk = FALSE, !.entered = FALSE,
                 !.regError = "none", !.path = << >>,
                 !.response = NoSecret, !.modId = NoId,
                 !.userSecret = NoSecret, !.accountId = "none"]
     IN IF ~sdk
        THEN Goto(p, Unwind(Append(stack[p], "syncHoldings"),
                            Throw("SnapTrade SDK not initialized"), l))
        ELSE Goto(p, [pc |-> "gs_read",
                      stack |-> stack[p] \o <<"syncHoldings", "fetchHoldings">>,
                      loc |-> l])
  /\ UNCHANGED <<sdk, conc, budget, assets, clock, stamps, row, remote, issued, calls>>

----------------------------------------------------------------------------
(* The endpoints' responses *)

\* a request to one of the endpoints `ops` has been answered
Answered(p, ops) == pc[p] = "done" /\ loc[p].op \in ops /\ loc[p].status # 0

\* the caller is not logged in: getUser gave an error or no user
NotLoggedIn(p) == loc[p].auth \in {"anonymous", "error"}

\* C28 (as claimed): register, deregister and sync answer 401 whenever the
\* caller is not logged in, whatever the other parameters are (a missing
\* userId included), and then register nothing, call no remote and write
\* nothing. POST and DELETE of register/route.ts check the userId first and
\* answer 400 to a caller who is not logged in and names no userId.
C28_NotLoggedInGets401 ==
  \A p \in Procs :
    Answered(p, {"registerEndpoint", "deregister", "sync"}) /\ NotLoggedIn(p) =>
      /\ loc[p].status = 401
      /\ loc[p].regs = 0 /\ loc[p].remotes = << >> /\ loc[p].writes = 0

\* a caller who is not logged in and names a userId is answered 401; in
\* every case nothing is registered, called or written
C28_NotLoggedInTouchesNothing ==
  \A p \in Procs :
    Answered(p, {"registerEndpoint", "deregister", "sync"}) /\ NotLoggedIn(p) =>
      /\ loc[p].given => loc[p].status = 401
      /\ loc[p].regs = 0 /\ loc[p].remotes = << >> /\ loc[p].writes = 0

\* C29 (as claimed): every response of the status, register and deregister
\* endpoints, on the success path and on every error path (400, 401, 403,
\* 500, the store-update failure included), carries the Cache-Control
\* no-store headers. The 400, 401 and 403 responses of POST and DELETE and
\* the 'Database error' 500 of DELETE are built without headers.
C29_ResponsesCarryNoStore ==
  \A p \in Procs :
    Answered(p, {"status", "registerEndpoint", "deregister"}) =>
      loc[p].noStore

\* the 200 responses of these endpoints and the responses of the status
\* endpoint do carry the headers
C29_SuccessCarriesNoStore ==
  \A p \in Procs :
    /\ Answered(p, {"status", "registerEndpoint", "deregister"})
    /\ loc[p].status = 200 \/ loc[p].op = "status"
    => loc[p].noStore

\* the sync endpoint has answered a caller who got past the authentication,
\* or whose request handling raised
SyncAnswered(p) == Answered(p, {"sync"}) /\ ~NotLoggedIn(p)

\* C30: for an authenticated caller the sync endpoint reports 'success'
\* exactly when neither the accounts fetch nor the holdings fetch raised,
\* 'partial' (success = true, an empty list for the part that failed)
\* exactly when at least one of them raised, and 'failed' (HTTP 500,
\* success = false, empty accounts and holdings) only when the request
\* handling itself raised; syncStatus is always one of the three.
C30_SyncStatus ==
  \A p \in Procs :
    SyncAnswered(p) =>
      LET l == loc[p]
          raised == l.accountsRaised \/ l.holdingsRaised
      IN /\ l.syncStatus \in {"success", "partial", "failed"}
         /\ l.auth = "self" =>
              /\ l.syncStatus = "success" <=> ~raised
              /\ l.syncStatus = "partial" <=> raised
         /\ l.syncStatus \in {"success", "partial"} =>
              /\ l.status = 200 /\ l.success
              /\ l.accountsRaised => l.syncAccounts = << >>
              /\ l.holdingsRaised => l.holdings = << >>
         /\ l.syncStatus = "failed" =>
              /\ l.auth = "throws"
              /\ l.status = 500 /\ ~l.success
              /\ l.syncAccounts = << >> /\ l.holdings = << >>

\* a sync whose accounts fetch raised and whose holdings fetch did not
C30_Witness ==
  \E p \in Procs :
    /\ SyncAnswered(p) /\ loc[p].auth = "self"
    /\ loc[p].accountsRaised /\ ~loc[p].holdingsRaised
    /\ loc[p].syncStatus = "partial"

\* a sync both of whose fetches went through
C30_WitnessSuccess ==
  \E p \in Procs :
    /\ SyncAnswered(p) /\ loc[p].syncStatus = "success"
    /\ loc[p].syncAccounts # << >> /\ loc[p].holdings # << >>

\* a sync whose request handling raised
C30_WitnessFailed ==
  \E p \in Procs : SyncAnswered(p) /\ loc[p].syncStatus = "failed"

----------------------------------------------------------------------------
(* Specifications *)

\* What earlier deployments may have left behind: nothing, the identity
\* known to the remote only, or also the row of its direct registration.
InitialStores ==
  LET known == {[id |-> UserId, secret |-> RealSecret(0)]}
  IN { [row |-> NoRow, remote |-> {}],
       [row |-> NoRow, remote |-> known],
       [row |-> DirectUpdate(PlaceholderRow(0), RealSecret(0), 0),
        remote |-> known] }

TypeInit ==
  /\ sdk \in BOOLEAN
  /\ clock = 0
  /\ stamps = -1
  /\ \E s \in InitialStores : row = s.row /\ remote = s.remote
  /\ assets = << >>
  /\ issued = 0
  /\ calls = 0
  /\ pc = [p \in Procs |-> "idle"]
  /\ stack = [p \in Procs |-> << >>]
  /\ loc = [p \in Procs |-> NoLoc]

\* requests are served one after the other
Init == TypeInit /\ conc = FALSE /\ budget = MaxCalls

\* requests of the same user overlap
InitConc == TypeInit /\ conc = TRUE /\ budget = MaxCallsConc

\* requests served one after the other, every operation on the connection
InitStore == TypeInit /\ conc = FALSE /\ budget = MaxStoreCalls

\* requests to the endpoints served one after the other
InitEndpoints == TypeInit /\ conc = FALSE /\ budget = MaxEndpointCalls

\* link creations served one after the other
InitLink == TypeInit /\ conc = FALSE /\ budget = MaxLinkCalls

\* callbacks served one after the other
InitAssets == TypeInit /\ conc = FALSE /\ budget = MaxAssetCalls

\* awaits whose step reads and writes nothing that requests share, and the
\* catch of getUserSecret, which runs before any other request goes on
PrivateLabels == {"fh_positions", "fh_balances", "done", "gs_fallback"}

\* A step at a private await commutes with every step of another request,
\* so the interleavings are explored with those steps taken first.
Turn(p) == \A q \in Procs \ {p} : pc[q] \notin PrivateLabels

\* the steps of getUserSecret and registerSnapTradeUser, and the clock
RegistrationSteps ==
  \/ \E p \in Procs, force \in BOOLEAN : Turn(p) /\ StartGetSecret(p, force)
  \/ \E p \in Procs : Turn(p) /\ StartRegisterUser(p)
  \/ \E p \in Procs : Turn(p) /\ Finish(p)
  \/ \E d \in TickSteps : Tick(d)
  \/ \E p \in Procs, ok \in BOOLEAN : Turn(p) /\ GsRead(p, ok)
  \/ \E p \in Procs : Turn(p) /\ GsFallback(p)
  \/ \E p \in Procs : Turn(p) /\ GsUpsert(p)
  \/ \E p \in Procs : Turn(p) /\ RsSelect(p)
  \/ \E p \in Procs : Turn(p) /\ RsPlaceholder(p)
  \/ \E p \in Procs, o \in {"ok", "nodata", "exists", "fail"} :
        Turn(p) /\ RsRegister(p, o)
  \/ \E p \in Procs : Turn(p) /\ RsStoreDirect(p)
  \/ \E p \in Procs : Turn(p) /\ RsReread(p)
  \/ \E p \in Procs, o \in {"ok", "nodata", "exists", "fail"} :
        Turn(p) /\ RsRegisterMod(p, o)
  \/ \E p \in Procs : Turn(p) /\ RsStoreMod(p)
  \/ \E p \in Procs : Turn(p) /\ RsStoreFake(p)
  \/ \E p \in Procs : Turn(p) /\ RsMarkFailed(p)

\* the steps of fetchSnapTradeHoldings around its call of getUserSecret
HoldingsSteps ==
  \/ \E p \in Procs, a \in {"none", "a2"} :
        Turn(p) /\ StartFetchHoldings(p, a)
  \/ \E p \in Procs, o \in {"ok", "nodata", "fail"}, as \in AccountOrders :
        Turn(p) /\ FhList(p, o, as)
  \/ \E p \in Procs, o \in {"ok", "nodata", "425", "fail"} :
        Turn(p) /\ FhPositions(p, o)
  \/ \E p \in Procs, o \in {"ok", "nodata", "fail"} :
        Turn(p) /\ FhBalances(p, o)

\* the steps of createSnapTradeUserLink, deleteSnapTradeConnection and the
\* DELETE endpoint around their calls of getUserSecret, and deleteSnapTradeUser
ConnectionSteps ==
  \/ \E p \in Procs, b \in BrokerInputs : Turn(p) /\ StartCreateLink(p, b)
  \/ \E p \in Procs, o \in {"ok", "nodata", "nouri", "fail"} :
        Turn(p) /\ ClLogin(p, o)
  \/ \E p \in Procs : Turn(p) /\ ClUpdate(p)
  \/ \E p \in Procs, a \in {"auth1", "unknown"} :
        Turn(p) /\ StartDeleteConnection(p, a)
  \/ \E p \in Procs, o \in {"ok", "nodata", "fail"}, as \in AccountOrders :
        Turn(p) /\ DcList(p, o, as)
  \/ \E p \in Procs, o \in {"ok", "fail"} : Turn(p) /\ DcRemove(p, o)
  \/ \E p \in Procs, o \in {"ok", "fail"} : Turn(p) /\ DcDeleteAccount(p, o)
  \/ \E p \in Procs, ok \in BOOLEAN : Turn(p) /\ DcRead(p, ok)
  \/ \E p \in Procs, ok \in BOOLEAN : Turn(p) /\ DcUpdate(p, ok)
  \/ \E p \in Procs, given \in BOOLEAN,
        auth \in {"self", "anonymous", "error", "other"} :
        Turn(p) /\ StartDeregister(p, given, auth)
  \/ \E p \in Procs, ok \in BOOLEAN : Turn(p) /\ DlRead(p, ok)
  \/ \E p \in Procs, o \in {"ok", "fail"} : Turn(p) /\ DlRemote(p, o)
  \/ \E p \in Procs, o \in {"ok", "fail"} : Turn(p) /\ DlRemoteRetry(p, o)
  \/ \E p \in Procs, ok \in BOOLEAN : Turn(p) /\ DlUpdate(p, ok)
  \/ \E p \in Procs : Turn(p) /\ StartDeleteUser(p)
  \/ \E p \in Procs, o \in {"ok", "fail"} : Turn(p) /\ DuDelete(p, o)

\* the steps of handleSnapTradeCallback around its call of getUserSecret
CallbackSteps ==
  \/ \E p \in Procs, in \in CallbackInputs :
        Turn(p) /\ StartHandleCallback(p, in)
  \/ \E p \in Procs : Turn(p) /\ CbRead(p)
  \/ \E p \in Procs : Turn(p) /\ CbUpdate(p)
  \/ \E p \in Procs, o \in {"ok", "fail"} : Turn(p) /\ CbRefresh(p, o)
  \/ \E p \in Procs, o \in {"ok", "nodata", "fail"}, as \in AccountOrders :
        Turn(p) /\ CbList(p, o, as)
  \/ \E p \in Procs, o \in {"ok", "error", "none"} :
        Turn(p) /\ CbCategory(p, o)
  \/ \E p \in Procs, o \in {"ok", "nodata", "fail"} :
        Turn(p) /\ CbPositions(p, o)
  \/ \E p \in Procs : Turn(p) /\ CbInsertPosition(p)
  \/ \E p \in Procs, o \in {"ok", "nodata", "fail"} :
        Turn(p) /\ CbBalances(p, o)
  \/ \E p \in Procs : Turn(p) /\ CbInsertCash(p)

Next == RegistrationSteps \/ HoldingsSteps

\* every operation that reads or writes the connection row, at one clock
\* value
StoreSteps ==
  \/ \E p \in Procs, force \in BOOLEAN : Turn(p) /\ StartGetSecret(p, force)
  \/ \E p \in Procs : Turn(p) /\ StartRegisterUser(p)
  \/ \E p \in Procs : Turn(p) /\ Finish(p)
  \/ \E p \in Procs, ok \in BOOLEAN : Turn(p) /\ GsRead(p, ok)
  \/ \E p \in Procs : Turn(p) /\ GsFallback(p)
  \/ \E p \in Procs : Turn(p) /\ GsUpsert(p)
  \/ \E p \in Procs : Turn(p) /\ RsSelect(p)
  \/ \E p \in Procs : Turn(p) /\ RsPlaceholder(p)
  \/ \E p \in Procs, o \in {"ok", "nodata", "exists", "fail"} :
        Turn(p) /\ RsRegister(p, o)
  \/ \E p \in Procs : Turn(p) /\ RsStoreDirect(p)
  \/ \E p \in Procs : Turn(p) /\ RsReread(p)
  \/ \E p \in Procs, o \in {"ok", "nodata", "exists", "fail"} :
        Turn(p) /\ RsRegisterMod(p, o)
  \/ \E p \in Procs : Turn(p) /\ RsStoreMod(p)
  \/ \E p \in Procs : Turn(p) /\ RsStoreFake(p)
  \/ \E p \in Procs : Turn(p) /\ RsMarkFailed(p)
  \/ ConnectionSteps
  \* handleSnapTradeCallback up to the listing of the accounts: its later
  \* steps leave the row alone and are explored in SpecAssets
  \/ \E p \in Procs, in \in CallbackInputs :
        Turn(p) /\ StartHandleCallback(p, in)
  \/ \E p \in Procs : Turn(p) /\ CbRead(p)
  \/ \E p \in Procs : Turn(p) /\ CbUpdate(p)
  \/ \E p \in Procs, o \in {"ok", "fail"} : Turn(p) /\ CbRefresh(p, o)
  \/ \E p \in Procs, o \in {"nodata", "fail"} :
        Turn(p) /\ CbList(p, o, AccountIds)

\* createSnapTradeUserLink with its retries, for a remote that may answer
\* 'not registered' to the login and a store whose select may fail
LinkSteps ==
  \/ \E p \in Procs, b \in LinkBrokerInputs : Turn(p) /\ StartCreateLink(p, b)
  \/ \E p \in Procs : Turn(p) /\ Finish(p)
  \/ \E p \in Procs, ok \in BOOLEAN : Turn(p) /\ GsRead(p, ok)
  \/ \E p \in Procs : Turn(p) /\ GsFallback(p)
  \/ \E p \in Procs : Turn(p) /\ GsUpsert(p)
  \/ \E p \in Procs : Turn(p) /\ RsSelect(p)
  \/ \E p \in Procs : Turn(p) /\ RsSelectFailed(p)
  \/ \E p \in Procs : Turn(p) /\ RsPlaceholder(p)
  \/ \E p \in Procs, o \in {"ok", "nodata", "exists", "fail", "badrequest"} :
        Turn(p) /\ RsRegister(p, o)
  \/ \E p \in Procs : Turn(p) /\ RsStoreDirect(p)
  \/ \E p \in Procs : Turn(p) /\ RsReread(p)
  \/ \E p \in Procs, o \in {"ok", "nodata", "exists", "fail"} :
        Turn(p) /\ RsRegisterMod(p, o)
  \/ \E p \in Procs : Turn(p) /\ RsStoreMod(p)
  \/ \E p \in Procs : Turn(p) /\ RsStoreFake(p)
  \/ \E p \in Procs : Turn(p) /\ RsMarkFailed(p)
  \/ \E p \in Procs, o \in {"ok", "nodata", "nouri", "fail", "unregistered"} :
        Turn(p) /\ ClLogin(p, o)
  \/ \E p \in Procs : Turn(p) /\ ClUpdate(p)
  \/ \E p \in Procs : Turn(p) /\ ClRetry(p)
  \/ \E p \in Procs, o \in {"ok", "fail"} : Turn(p) /\ ClDelete(p, o)
  \/ \E p \in Procs, o \in {"ok", "nodata", "fail"} :
        Turn(p) /\ ClReregister(p, o)
  \/ \E p \in Procs : Turn(p) /\ ClUpsert(p)

\* the endpoints, served one after the other
EndpointSteps ==
  \/ \E p \in Procs, body \in {"invalid", "nouser", "user"},
        auth \in AuthOutcomes :
        Turn(p) /\ StartRegisterEndpoint(p, body, auth)
  \/ \E p \in Procs, given \in BOOLEAN,
        auth \in AuthOutcomes :
        Turn(p) /\ StartDeregister(p, given, auth)
  \/ \E p \in Procs : Turn(p) /\ StartStatus(p)
  \/ \E p \in Procs, auth \in {"self", "anonymous", "error", "throws"} :
        Turn(p) /\ StartSync(p, auth)
  \/ \E p \in Procs : Turn(p) /\ Finish(p)
  \/ \E p \in Procs, o \in {"ok", "fail"} : Turn(p) /\ StCheck(p, o)
  \/ \E p \in Procs, o \in {"ok", "nodata", "fail"} :
        Turn(p) /\ FaList(p, o, AccountIds)
  \/ \E p \in Procs : Turn(p) /\ SyHoldings(p)
  \/ \E p \in Procs, o \in {"ok", "nodata", "fail"} :
        Turn(p) /\ FhList(p, o, AccountIds)
  \/ \E p \in Procs, o \in {"ok", "425", "fail"} :
        Turn(p) /\ FhPositions(p, o)
  \/ \E p \in Procs, o \in {"ok", "fail"} :
        Turn(p) /\ FhBalances(p, o)
  \/ \E p \in Procs, ok \in BOOLEAN : Turn(p) /\ DlRead(p, ok)
  \/ \E p \in Procs, o \in {"ok", "fail"} : Turn(p) /\ DlRemote(p, o)
  \/ \E p \in Procs, o \in {"ok", "fail"} : Turn(p) /\ DlRemoteRetry(p, o)
  \/ \E p \in Procs, ok \in BOOLEAN : Turn(p) /\ DlUpdate(p, ok)
  \/ \E p \in Procs, ok \in BOOLEAN : Turn(p) /\ GsRead(p, ok)
  \/ \E p \in Procs : Turn(p) /\ GsFallback(p)
  \/ \E p \in Procs : Turn(p) /\ GsUpsert(p)
  \/ \E p \in Procs : Turn(p) /\ RsSelect(p)
  \/ \E p \in Procs : Turn(p) /\ RsPlaceholder(p)
  \/ \E p \in Procs, o \in {"ok", "exists", "fail"} :
        Turn(p) /\ RsRegister(p, o)
  \/ \E p \in Procs : Turn(p) /\ RsStoreDirect(p)
  \/ \E p \in Procs : Turn(p) /\ RsReread(p)
  \/ \E p \in Procs, o \in {"ok", "fail"} :
        Turn(p) /\ RsRegisterMod(p, o)
  \/ \E p \in Procs : Turn(p) /\ RsStoreMod(p)
  \/ \E p \in Procs : Turn(p) /\ RsStoreFake(p)
  \/ \E p \in Procs : Turn(p) /\ RsMarkFailed(p)

\* registerUser and getSecret requests in progress at once, their results
\* kept until all have completed
RaceSteps ==
  \/ \E p \in Procs, force \in BOOLEAN : StartGetSecret(p, force)
  \/ \E p \in Procs : StartRegisterUser(p)
  \/ \E p \in Procs, ok \in BOOLEAN : GsRead(p, ok)
  \/ \E p \in Procs : GsFallback(p)
  \/ \E p \in Procs : GsUpsert(p)
  \/ \E p \in Procs : RsSelect(p)
  \/ \E p \in Procs : RsPlaceholder(p)
  \/ \E p \in Procs, o \in {"ok", "nodata", "exists", "fail"} :
        RsRegister(p, o)
  \/ \E p \in Procs : RsStoreDirect(p)
  \/ \E p \in Procs : RsReread(p)
  \/ \E p \in Procs, o \in {"ok", "nodata", "exists", "fail"} :
        RsRegisterMod(p, o)
  \/ \E p \in Procs : RsStoreMod(p)
  \/ \E p \in Procs : RsStoreFake(p)
  \/ \E p \in Procs : RsMarkFailed(p)

\* handleSnapTradeCallback with the registration it may go through
AssetSteps ==
  \/ \E p \in Procs : Turn(p) /\ Finish(p)
  \/ \E p \in Procs, ok \in BOOLEAN : Turn(p) /\ GsRead(p, ok)
  \/ \E p \in Procs : Turn(p) /\ GsFallback(p)
  \/ \E p \in Procs : Turn(p) /\ GsUpsert(p)
  \/ \E p \in Procs : Turn(p) /\ RsSelect(p)
  \/ \E p \in Procs : Turn(p) /\ RsPlaceholder(p)
  \/ \E p \in Procs, o \in {"ok", "nodata", "exists", "fail"} :
        Turn(p) /\ RsRegister(p, o)
  \/ \E p \in Procs : Turn(p) /\ RsStoreDirect(p)
  \/ \E p \in Procs : Turn(p) /\ RsReread(p)
  \/ \E p \in Procs, o \in {"ok", "nodata", "exists", "fail"} :
        Turn(p) /\ RsRegisterMod(p, o)
  \/ \E p \in Procs : Turn(p) /\ RsStoreMod(p)
  \/ \E p \in Procs : Turn(p) /\ RsStoreFake(p)
  \/ \E p \in Procs : Turn(p) /\ RsMarkFailed(p)
  \/ CallbackSteps

\* requests served one after the other: every operation
Spec == Init /\ [][Next]_vars

\* overlapping getUserSecret and registerSnapTradeUser calls of one user
\* (fetchSnapTradeHoldings touches the row only through getUserSecret)
SpecConc == InitConc /\ [][RegistrationSteps]_vars

\* requests served one after the other: registration, link creation,
\* callback, disconnection and deregistration
SpecStore == InitStore /\ [][StoreSteps]_vars

\* overlapping registrations whose results are compared at the end
SpecRace == InitConc /\ [][RaceSteps]_vars

\* the endpoints register, deregister, status and sync
SpecEndpoints == InitEndpoints /\ [][EndpointSteps]_vars

\* link creations with their retries
SpecLink == InitLink /\ [][LinkSteps]_vars

\* callbacks served one after the other, with the Asset rows they insert
SpecAssets == InitAssets /\ [][AssetSteps]_vars

----------------------------------------------------------------------------
(* Properties *)

\* the top-level call op of request p has handed its result to its caller
Done(p, op) == pc[p] = "done" /\ loc[p].op = op

\* registerUser, or getSecret having called it, has returned or thrown
DoneRegistering(p) ==
  pc[p] = "done" /\ loc[p].op \in {"registerUser", "getSecret"}

\* getSecret has returned or thrown after reading the row loc[p].data
ReadRow(p) == Done(p, "getSecret") /\ loc[p].readOk

\* half days between registered_at of the row read and now
Age(p) == clock - loc[p].data.data.registered_at

\* C1: getSecret never throws: whatever the row, the outcome of the store
\* read and the outcome of the remote register call, it returns a string.
C1_GetSecretNeverThrows ==
  \A p \in Procs :
    Done(p, "getSecret") =>
      loc[p].outcome = "returned" /\ Truthy(loc[p].result)

\* C2: for a user with no stored row getSecret returns a non-empty string
\* whatever the remote register call does, and on return the store holds an
\* active row whose secret is the returned string.
C2_NoRowYieldsStoredSecret ==
  \A p \in Procs :
    ReadRow(p) /\ ~loc[p].data.present =>
      /\ loc[p].outcome = "returned"
      /\ Truthy(loc[p].result)
      /\ row.present /\ row.active /\ row.secret = loc[p].result

\* C2 witness: no row and no client: the emergency secret is stored and returned
C2_Witness ==
  \E p \in Procs :
    /\ ReadRow(p) /\ ~loc[p].data.present /\ ~sdk
    /\ loc[p].result.k = "emergency_fallback"
    /\ row.active /\ row.secret = loc[p].result

\* C3: with the broker client initialized fetchHoldings never throws and
\* returns a list whatever getSecret, the account listing and the per-account
\* calls do (one error sentinel when getSecret raises); with the client not
\* initialized it raises "SnapTrade SDK not initialized" before any store
\* access or remote call.
C3_FetchHoldingsThrowsOnlyUninitialized ==
  \A p \in Procs :
    Done(p, "fetchHoldings") =>
      IF sdk
      THEN /\ loc[p].outcome = "returned"
           /\ loc[p].error = "none"
           /\ (~loc[p].readOk =>
                 loc[p].holdings =
                   <<ErrorHolding("Database error when retrieving user secret")>>)
      ELSE /\ loc[p].outcome = "threw"
           /\ loc[p].error = "SnapTrade SDK not initialized"
           /\ ~loc[p].entered /\ loc[p].regs = 0 /\ loc[p].writes = 0
           /\ loc[p].holdings = << >>
           /\ row = loc[p].startRow

\* getSecret raised inside fetchHoldings, which returned the sentinel list
C3_Witness ==
  \E p \in Procs :
    /\ Done(p, "fetchHoldings") /\ sdk /\ ~loc[p].readOk
    /\ loc[p].outcome = "returned"
    /\ Len(loc[p].holdings) = 1 /\ loc[p].holdings[1].isError

\* C3 as stated: fetchHoldings never throws and always returns a list, also
\* when the broker client is not initialized.
C3_FetchHoldingsNeverThrows ==
  \A p \in Procs :
    Done(p, "fetchHoldings") => loc[p].outcome = "returned"

\* C4: registerUser never returns the placeholder "pending_registration" as
\* the user's secret, also when another call has written the placeholder row
\* and not yet stored the remote reply.
C4_NeverReturnsPlaceholder ==
  \A p \in Procs :
    Done(p, "registerUser") /\ loc[p].outcome = "returned" =>
      loc[p].result # Placeholder

\* C5: whenever getSecret does not return the stored secret directly (stale
\* real secret, or forceRefresh), a remote register call is attempted, and
\* when it succeeds the newly issued secret is stored and returned.
C5_RefreshCallsRemote ==
  \A p \in Procs :
    ReadRow(p) /\ sdk /\ ValidCredentials(loc[p].data) /\ loc[p].entered =>
      /\ loc[p].regs >= 1
      /\ loc[p].response # NoSecret =>
           loc[p].result = loc[p].response /\ row.secret = loc[p].response

\* C6: for an active real stored secret and forceRefresh = false, getSecret
\* returns the stored secret without entering the registration path if and
\* only if the time since registered_at does not exceed 7 days.
C6_RefreshAfterSevenDays ==
  \A p \in Procs :
    /\ ReadRow(p) /\ ~loc[p].force
    /\ ValidCredentials(loc[p].data)
    /\ ~loc[p].data.data.is_fake_secret
    /\ loc[p].data.data.registered_at # NoTime
    => (~loc[p].entered <=> Age(p) <= RefreshDays * HalfDaysPerDay)

\* C7: for an active stored secret marked is_fake_secret and forceRefresh =
\* false, getSecret returns the stored secret unchanged without entering the
\* registration path: no remote call, no store write, whatever the age.
C7_FakeSecretReturnedAsIs ==
  \A p \in Procs :
    /\ ReadRow(p) /\ ~loc[p].force
    /\ ValidCredentials(loc[p].data)
    /\ loc[p].data.data.is_fake_secret
    => /\ loc[p].outcome = "returned"
       /\ loc[p].result = loc[p].data.secret
       /\ ~loc[p].entered /\ loc[p].regs = 0 /\ loc[p].writes = 0
       /\ row = loc[p].data

\* C7 witness: a fallback secret 8 days old is returned
C7_Witness ==
  \E p \in Procs :
    /\ ReadRow(p) /\ ~loc[p].force
    /\ ValidCredentials(loc[p].data)
    /\ loc[p].data.data.is_fake_secret
    /\ Age(p) = (RefreshDays + 1) * HalfDaysPerDay
    /\ loc[p].result = loc[p].data.secret

\* the stages registerSnapTradeUser may have gone through, in their order
FallbackChain ==
  { << >>, <<"existing">>, <<"direct">>,
    <<"direct", "store_reuse">>,
    <<"direct", "modified_id">>,
    <<"direct", "modified_id", "synthesized">> }

\* the remote answered the direct registration with 'already exists'
Conflicted(p) == Len(loc[p].path) >= 2

\* C8: on an 'already exists' conflict registerUser always returns a secret
\* and never raises, after store-reuse, then one modified-id registration,
\* then a synthesized secret: at most two remote register calls per call.
C8_ConflictChainBounded ==
  \A p \in Procs :
    /\ loc[p].path \in FallbackChain
    /\ loc[p].regs <= 2
    /\ DoneRegistering(p) /\ Conflicted(p) =>
         loc[p].outcome = "returned" /\ Truthy(loc[p].result)

\* C8 witness: the whole chain down to the synthesized secret
C8_Witness ==
  \E p \in Procs :
    /\ Done(p, "registerUser")
    /\ loc[p].path = <<"direct", "modified_id", "synthesized">>
    /\ loc[p].regs = 2
    /\ loc[p].result.k = "fake_secret"

\* C9: from no stored row, after registerUser succeeded through the remote
\* register the row holds the issued secret, and a following
\* getSecret(forceRefresh = false) returns that secret with no remote
\* register call.
C9_RegisterThenGetSecret ==
  \A p \in Procs :
    /\ Done(p, "registerUser") /\ ~loc[p].startRow.present
       /\ loc[p].path = <<"direct">> /\ loc[p].outcome = "returned" =>
         /\ row.present /\ row.active /\ row.secret = loc[p].result
         /\ Authentic(UserId, row.secret)
    /\ ReadRow(p) /\ ~loc[p].force /\ ValidCredentials(loc[p].data)
       /\ loc[p].data.data.registration_method = "direct" =>
         /\ loc[p].outcome = "returned"
         /\ loc[p].result = loc[p].data.secret
         /\ loc[p].regs = 0

\* C9 witness: getSecret returns the secret of the direct registration
C9_Witness ==
  \E p \in Procs :
    /\ ReadRow(p) /\ ~loc[p].force
    /\ loc[p].data.data.registration_method = "direct"
    /\ loc[p].result = loc[p].data.secret
    /\ Authentic(UserId, loc[p].result)
    /\ loc[p].regs = 0

\* C10: after an 'already exists' conflict with no reusable stored secret and
\* a successful modified-id registration, the row of the original user id
\* holds the modified identity's secret, original_user_id is the original id
\* and registration_method is 'modified_id'.
C10_ModifiedIdProvenance ==
  \A p \in Procs :
    DoneRegistering(p) /\ loc[p].path = <<"direct", "modified_id">> =>
      /\ row.present
      /\ row.secret = loc[p].result
      /\ Authentic(loc[p].modId, row.secret)
      /\ row.data.original_user_id = UserId
      /\ row.data.registration_method = "modified_id"

\* C10 witness: registerUser ends with the modified-id registration
C10_Witness ==
  \E p \in Procs :
    /\ Done(p, "registerUser")
    /\ loc[p].path = <<"direct", "modified_id">>
    /\ loc[p].modId # NoId
    /\ row.data.snap_trade_user_id = loc[p].modId

\* C11: when the remote register call of registerUser fails with an error
\* that is not an 'already exists' conflict, the row is left inactive with
\* the error message in its metadata and the error is raised to the caller;
\* no secret is returned.
C11_FailureMarksInactiveAndRaises ==
  \A p \in Procs :
    Done(p, "registerUser") /\ loc[p].regError # "none" =>
      /\ loc[p].outcome = "threw"
      /\ loc[p].error = loc[p].regError
      /\ loc[p].result = NoSecret
      /\ row.present /\ ~row.active
      /\ row.data.error_message = loc[p].regError
      /\ row.data.registration_failed_at = clock

\* C11 witness: the remote call failed and registerUser raised the error
C11_Witness ==
  \E p \in Procs :
    /\ Done(p, "registerUser") /\ loc[p].path = <<"direct">>
    /\ loc[p].regError = "Request failed"
    /\ loc[p].outcome = "threw"
    /\ ~row.active /\ row.data.error_message = "Request failed"

\* C12: when registration fails inside getSecret and the row read at the
\* start of the call held usable credentials, that secret is returned and
\* the store is left as it was read; otherwise an emergency fallback secret
\* is stored as an active row marked is_fake_secret and is the value returned.
C12_RegistrationFailureFallback ==
  \A p \in Procs :
    ReadRow(p) /\ loc[p].regError # "none" =>
      /\ loc[p].outcome = "returned"
      /\ IF ValidCredentials(loc[p].data)
         THEN /\ loc[p].result = loc[p].data.secret
              /\ row = loc[p].data
         ELSE /\ loc[p].result.k = "emergency_fallback"
              /\ row.present /\ row.active
              /\ row.secret = loc[p].result
              /\ row.data.is_fake_secret
              /\ row.data.original_error = loc[p].regError

\* C12 witness: registration failed and the stale real secret was returned
C12_Witness ==
  \E p \in Procs :
    /\ ReadRow(p) /\ loc[p].regError # "none"
    /\ ValidCredentials(loc[p].data) /\ loc[p].data.secret.k = "real"
    /\ loc[p].result = loc[p].data.secret

\* fetchHoldings has returned the list loc[p].holdings
Fetched(p) == Done(p, "fetchHoldings") /\ loc[p].outcome = "returned"

\* the entries of the list hs that belong to account a, in order
OfAccount(hs, a) == SelectSeq(hs, LAMBDA h : h.accountId = a)

\* the position at index k of account a, as a holding
IsPositionOf(h, a, k) ==
  /\ h.symbol = PositionsOf(a)[k].symbol
  /\ h.quantity = PositionsOf(a)[k].quantity
  /\ h.totalValue = PositionsOf(a)[k].quantity * PositionsOf(a)[k].price
  /\ h.accountId = a /\ ~h.isPending /\ ~h.isError

\* C15: when two accounts are processed and the positions call of exactly
\* one fails with 425 while the other's succeeds, the list holds exactly one
\* pending placeholder (zero quantity and value) with the failed account's
\* id, the positions of the other account, and no error sentinel; the call
\* returns.
C15_TooEarlyGivesOnePending ==
  \A p \in Procs :
    Done(p, "fetchHoldings") /\ Len(loc[p].pos) = 2 =>
      \A i, j \in 1..2 :
        i # j /\ loc[p].pos[i] = "425" /\ loc[p].pos[j] = "ok" =>
          LET hs      == loc[p].holdings
              failed  == loc[p].accounts[i]
              other   == loc[p].accounts[j]
              pending == SelectSeq(hs, LAMBDA h : h.isPending)
          IN /\ loc[p].outcome = "returned"
             /\ Len(pending) = 1
             /\ pending[1].accountId = failed
             /\ pending[1].quantity = 0 /\ pending[1].totalValue = 0
             /\ OfAccount(hs, failed) = pending
             /\ \A k \in 1..Len(PositionsOf(other)) :
                  IsPositionOf(OfAccount(hs, other)[k], other, k)
             /\ \A k \in 1..Len(hs) : ~hs[k].isError

\* C15 witness: the first account listed was too early, the second was read
C15_Witness ==
  \E p \in Procs :
    /\ Fetched(p) /\ loc[p].pos = <<"425", "ok">>
    /\ loc[p].accounts = <<"a2", "a1">>
    /\ loc[p].holdings[1].isPending
    /\ loc[p].holdings[2].symbol = "AAPL"

\* the cash balances of account a: flagged cash with a positive amount
PositiveCash(a) ==
  SelectSeq(BalancesOf(a), LAMBDA b : b.cash /\ b.amount > 0)

\* C16: for every processed account whose positions and balances calls both
\* succeed, all its positions and all its cash balances are in the returned
\* list, whatever happened to the other accounts and in whichever order the
\* accounts were listed.
C16_AccountFailuresIsolated ==
  \A p \in Procs :
    Done(p, "fetchHoldings") /\ loc[p].listed = "ok" =>
      /\ loc[p].outcome = "returned"
      /\ Len(loc[p].pos) = Len(loc[p].accounts)
      /\ Len(loc[p].bal) = Len(loc[p].accounts)
      /\ \A j \in 1..Len(loc[p].accounts) :
           loc[p].pos[j] = "ok" /\ loc[p].bal[j] = "ok" =>
             LET a    == loc[p].accounts[j]
                 mine == OfAccount(loc[p].holdings, a)
                 np   == Len(PositionsOf(a))
             IN /\ Len(mine) = np + Len(PositiveCash(a))
                /\ \A k \in 1..np : IsPositionOf(mine[k], a, k)
                /\ \A k \in 1..Len(PositiveCash(a)) :
                     /\ mine[np + k].symbol = "CASH"
                     /\ mine[np + k].totalValue = PositiveCash(a)[k].amount

\* C16 witness: the first account's positions call failed, the second
\* account's holdings and cash are all there
C16_Witness ==
  \E p \in Procs :
    /\ Fetched(p) /\ loc[p].accounts = <<"a2", "a1">>
    /\ loc[p].pos = <<"fail", "ok">> /\ loc[p].bal = <<"skipped", "ok">>
    /\ Len(loc[p].holdings) = 3
    /\ loc[p].holdings[1].symbol = "AAPL" /\ loc[p].holdings[3].symbol = "CASH"

\* C17: when getSecret raises inside fetchHoldings, or the account listing
\* fails or returns no data, the returned list has exactly one element, an
\* error sentinel with isError and the error's message, and no real or
\* pending holding.
C17_TopLevelFailureGivesSentinel ==
  \A p \in Procs :
    /\ Done(p, "fetchHoldings") /\ sdk
    /\ (~loc[p].readOk \/ loc[p].listed \in {"nodata", "fail"})
    => /\ loc[p].outcome = "returned"
       /\ Len(loc[p].holdings) = 1
       /\ loc[p].holdings[1].isError
       /\ ~loc[p].holdings[1].isPending
       /\ loc[p].holdings[1].symbol = "ERROR"
       /\ loc[p].holdings[1].errorMessage =
            (IF ~loc[p].readOk
             THEN "Database error when retrieving user secret"
             ELSE IF loc[p].listed = "nodata"
                  THEN "Failed to fetch accounts" ELSE "Request failed")

\* C17 witness: the listing returned no data
C17_Witness ==
  \E p \in Procs :
    /\ Fetched(p) /\ loc[p].listed = "nodata"
    /\ loc[p].holdings = <<ErrorHolding("Failed to fetch accounts")>>

\* C19: the CASH holdings of an account whose balances were fetched are, in
\* order, exactly its balances flagged cash with a strictly positive amount,
\* each with quantity 1, total value the amount and gain/loss 0; the other
\* balances (not cash, zero or negative) give no holding.
C19_CashHoldingIffPositiveCash ==
  \A p \in Procs :
    Fetched(p) /\ loc[p].listed = "ok" =>
      \A j \in 1..Len(loc[p].accounts) :
        LET a    == loc[p].accounts[j]
            cash == SelectSeq(OfAccount(loc[p].holdings, a),
                              LAMBDA h : h.symbol = "CASH")
        IN IF loc[p].bal[j] = "ok"
           THEN /\ Len(cash) = Len(PositiveCash(a))
                /\ \A k \in 1..Len(cash) :
                     /\ cash[k].quantity = 1
                     /\ cash[k].totalValue = PositiveCash(a)[k].amount
                     /\ cash[k].gainLoss = 0
           ELSE cash = << >>

\* C19 witness: account a1 (one positive cash balance, one positive balance
\* not flagged cash) gave one CASH holding, account a2 (zero and negative
\* cash) gave none
C19_Witness ==
  \E p \in Procs :
    /\ Fetched(p) /\ loc[p].bal = <<"ok", "ok">>
    /\ Len(SelectSeq(loc[p].holdings, LAMBDA h : h.symbol = "CASH")) = 1
    /\ \E k \in 1..Len(loc[p].holdings) :
         /\ loc[p].holdings[k].symbol = "CASH"
         /\ loc[p].holdings[k].accountId = "a1"
         /\ loc[p].holdings[k].totalValue = 7

\* the metadata fields an update of deleteSnapTradeConnection or of the DELETE
\* endpoint sets; every other field is a previous field
DeactivationFields(at) ==
  IF at = "dl_update" THEN {"deleted_at", "user_deleted"}
  ELSE {"disconnected_at", "authorization_id"}

\* C14 (as claimed): no operation removes the BrokerConnection row: a row
\* that exists still exists after every step; and the update of
\* deleteConnection and the update of the DELETE endpoint leave the row
\* inactive, with the secret and every previous metadata field it had (only
\* the deactivation fields are set). Both operations read the metadata with
\* a select whose error they ignore: when it fails they spread {} and their
\* update writes the deactivation fields alone.
C14_RowsOnlyDeactivated ==
  [][ /\ row.present => row'.present
      /\ \A p \in Procs :
           /\ pc[p] \in {"dl_update", "dc_update"}
           /\ loc'[p].writes = loc[p].writes + 1
           => /\ row.present => ~row'.active
              /\ row'.present = row.present
              /\ row'.secret = row.secret
              /\ \A f \in DOMAIN row.data \ DeactivationFields(pc[p]) :
                   row'.data[f] = row.data[f] ]_vars

\* no step removes the row
C14_RowNeverRemoved ==
  [][row.present => row'.present]_vars

\* the updates of deleteConnection and of the DELETE endpoint leave the row
\* inactive with its secret, and with every previous metadata field when
\* the select before them answered
C14_FieldsKeptWhenSelected ==
  [][ \A p \in Procs :
        /\ pc[p] \in {"dl_update", "dc_update"}
        /\ loc'[p].writes = loc[p].writes + 1
        => /\ row.present => ~row'.active
           /\ row'.present = row.present
           /\ row'.secret = row.secret
           /\ loc[p].selected =>
                \A f \in DOMAIN row.data \ DeactivationFields(pc[p]) :
                  row'.data[f] = row.data[f] ]_vars

\* the DELETE endpoint answered 200 after its select failed: the registration
\* metadata the row had is gone
C14_MetadataLost ==
  \E p \in Procs :
    /\ pc[p] = "done" /\ loc[p].op = "deregister" /\ loc[p].status = 200
    /\ ~loc[p].selected
    /\ loc[p].startRow.present
    /\ loc[p].startRow.data.registered_at # NoTime
    /\ row.present /\ ~row.active
    /\ row.data.registered_at = NoTime
    /\ row.data.user_deleted

\* the same for deleteConnection
C14_MetadataLostOnDisconnect ==
  \E p \in Procs :
    /\ pc[p] = "done" /\ loc[p].op = "deleteConnection"
    /\ loc[p].outcome = "returned" /\ loc[p].writes >= 1
    /\ ~loc[p].selected
    /\ row.present /\ ~row.active
    /\ row.data.registered_at = NoTime
    /\ row.data.disconnected_at # NoTime

\* the DELETE endpoint answered 200 on a registered row, which is now
\* inactive and still has its secret and its registration metadata
C14_Witness ==
  \E p \in Procs :
    /\ pc[p] = "done" /\ loc[p].op = "deregister" /\ loc[p].status = 200
    /\ loc[p].startRow.present /\ loc[p].startRow.active
    /\ loc[p].startRow.data.registered_at # NoTime
    /\ row.present /\ ~row.active
    /\ row.secret = loc[p].startRow.secret
    /\ row.data.registered_at = loc[p].startRow.data.registered_at
    /\ row.data.user_deleted

\* the lookup of the category failed in the call of p
CategoryLookupFailed(p) ==
  \E k \in 1..Len(loc[p].remotes) :
    loc[p].remotes[k] \in {"category_error", "category_none"}

\* C20: when the lookup of the 'investments' category errors or returns
\* nothing, handleCallback raises that error and the call has inserted no
\* Asset row, whichever accounts were listed
C20_CategoryFailureInsertsNothing ==
  \A p \in Procs :
    Done(p, "handleCallback") /\ CategoryLookupFailed(p) =>
      /\ loc[p].outcome = "threw"
      /\ loc[p].error \in {"Category error: Request failed",
                           "Category not found"}
      /\ loc[p].inserted = 0
      /\ Len(assets) = loc[p].startAssets

\* C20 witness: two accounts with positions and cash were listed, the lookup
\* returned nothing, and the call raised without a row inserted
C20_Witness ==
  \E p \in Procs :
    /\ Done(p, "handleCallback")
    /\ loc[p].listed = "ok" /\ Len(loc[p].accounts) = 2
    /\ loc[p].remotes[Len(loc[p].remotes)] = "category_none"
    /\ loc[p].outcome = "threw" /\ loc[p].error = "Category not found"
    /\ loc[p].inserted = 0 /\ Len(assets) = loc[p].startAssets

\* C18 (as claimed): the purchase price of every position, one of quantity 0
\* included, is a defined number, both in the holdings fetchHoldings returns
\* and in the Asset rows handleCallback has inserted; no NaN or Infinity
\* appears.  The code divides bookValue by quantity unguarded, so this fails.
C18_PurchasePriceDefined ==
  /\ \A p \in Procs :
       Done(p, "fetchHoldings") /\ loc[p].outcome = "returned" =>
         \A k \in 1..Len(loc[p].holdings) :
           loc[p].holdings[k].purchasePrice.k = "num"
  /\ \A k \in 1..Len(assets) :
       assets[k].asset_type = "stock" => assets[k].purchase_price.k = "num"

\* a secret made up locally: `fake_secret_...` or `emergency_fallback_...`
Synthesized(s) == s.k \in {"fake_secret", "emergency_fallback"}

\* C13 (as claimed): in every state the stored row tells a fake secret from
\* a real one: a row whose secret was synthesized locally carries
\* is_fake_secret = true, and a row whose secret the remote issued does not.
\* It holds while the operations are served one after the other; with two
\* requests in progress the failure update of one registration (lines
\* 389-399) replaces the metadata beside the emergency secret the other
\* request has just stored (lines 509-524), and the flag is lost.
C13_FakeSecretsAreFlagged ==
  row.present =>
    /\ Synthesized(row.secret) => row.data.is_fake_secret
    /\ row.secret.k = "real" => ~row.data.is_fake_secret

\* the Asset rows one run inserts for the accounts as, every reply having
\* data
RECURSIVE RunRows(_)
RunRows(as) ==
  IF as = << >> THEN << >>
  ELSE PositionAssets(PositionsOf(Head(as)), Head(as))
       \o CashAssets(BalancesOf(Head(as)), Head(as))
       \o RunRows(Tail(as))

\* the run of p returned after a reply with data for every account
CompletedRun(p) ==
  /\ Done(p, "handleCallback") /\ loc[p].outcome = "returned"
  /\ \A j \in 1..Len(loc[p].accounts) :
       loc[p].pos[j] = "ok" /\ loc[p].bal[j] = "ok"

\* C21: handleCallback only inserts: every step keeps the Asset rows there
\* are and adds rows after them, so their number never decreases; and a
\* completed run against the same remote accounts and positions has added
\* the rows of one run again (a positive number of them) beside the rows
\* the earlier runs left, duplicates included.
C21_CallbackOnlyInserts ==
  /\ [][ /\ Len(assets') >= Len(assets)
         /\ SubSeq(assets', 1, Len(assets)) = assets ]_vars
  /\ [](\A p \in Procs :
          CompletedRun(p) =>
            /\ Len(assets) = loc[p].startAssets + Len(RunRows(loc[p].accounts))
            /\ SubSeq(assets, loc[p].startAssets + 1, Len(assets))
                 = RunRows(loc[p].accounts)
            /\ Len(assets) > loc[p].startAssets)

\* C21 witness: the second of two completed runs with the same listing has
\* left exactly twice the rows of one run
C21_Witness ==
  \E p \in Procs :
    /\ CompletedRun(p)
    /\ loc[p].startAssets = Len(RunRows(loc[p].accounts))
    /\ assets = RunRows(loc[p].accounts) \o RunRows(loc[p].accounts)
    /\ Len(assets) = 2 * Len(RunRows(AccountIds))
    /\ Len(assets) > 0

\* the index of the step s in the steps of the call of p, 0 if it is absent
StepIndex(p, s) ==
  IF \E k \in 1..Len(loc[p].remotes) : loc[p].remotes[k] \in s
  THEN CHOOSE k \in 1..Len(loc[p].remotes) :
         /\ loc[p].remotes[k] \in s
         /\ \A j \in 1..(k - 1) : loc[p].remotes[j] \notin s
  ELSE 0

\* C22: handleCallback marks the connection active first, then attempts the
\* refresh (when it has an authorization id), then lists the accounts; a
\* failed refresh does not end the call: the accounts are listed after it,
\* and with replies that have data the assets of every account are inserted.
C22_ActivateRefreshList ==
  \A p \in Procs :
    loc[p].op = "handleCallback" =>
      LET activate == StepIndex(p, {"activate"})
          refresh  == StepIndex(p, {"refresh_ok", "refresh_fail"})
          list     == StepIndex(p, {"list"})
      IN /\ refresh # 0 => activate = 1 /\ refresh = 2
         /\ list # 0 =>
              /\ activate = 1
              /\ IF loc[p].authorizationId # "none"
                 THEN refresh = 2 /\ list = 3
                 ELSE refresh = 0 /\ list = 2
         /\ pc[p] = "done" /\ refresh # 0 => list # 0
         /\ CompletedRun(p) =>
              loc[p].inserted = Len(RunRows(loc[p].accounts))

\* C22 witness: the refresh failed, the accounts were listed after it and the
\* assets of both accounts were inserted
C22_Witness ==
  \E p \in Procs :
    /\ CompletedRun(p)
    /\ SubSeq(loc[p].remotes, 1, 3) = <<"activate", "refresh_fail", "list">>
    /\ Len(loc[p].accounts) = 2
    /\ loc[p].inserted = Len(RunRows(loc[p].accounts))
    /\ loc[p].inserted > 0
    /\ row.active

\* createLink called the remote login in the call of p
LoggedIn(p) ==
  /\ loc[p].op = "createLink"
  /\ \E k \in 1..Len(loc[p].remotes) : loc[p].remotes[k] = "login"

\* the login call got no broker parameter / the broker parameter b
Omitted   == [passed |-> FALSE, broker |-> << >>]
Passed(b) == [passed |-> TRUE, broker |-> b]

\* What the claim asks of the login call for each brokerId argument explored,
\* with the upper-case forms and the blank strings written out as ECMAScript
\* defines them: 'ibkr', 'IbKr', 'SCHWAB', 'schwab' and 'interactive_brokers'
\* read IBKR, SCHWAB and INTERACTIVE_BROKERS in upper case, and so do
\* 'ıbkr' (dotless i, U+0131) and 'ſchwab' (long s, U+017F); ' ibkr' reads
\* ' IBKR', which is no special broker; 'éß' reads 'ÉSS' and 'ﬁdelity'
\* (ligature fi, U+FB01) reads 'FIDELITY'; the strings of white space
\* (space, tab, line feed, vertical tab, no-break space, byte order mark)
\* are blank.
BrokerCases ==
  { [brokerId |-> Undefined, broker |-> Omitted],
    [brokerId |-> Str(<< >>), broker |-> Omitted],
    [brokerId |-> Str(<<" ">>), broker |-> Omitted],
    [brokerId |-> Str(<<"\t", " ", "\n">>), broker |-> Omitted],
    [brokerId |-> Str(<<"", " ", "﻿">>), broker |-> Omitted],
    [brokerId |-> Str(<<"é", "ß">>), broker |-> Passed(<<"É", "S", "S">>)],
    [brokerId |-> Str(<<"a", "l", "p", "a", "c", "a">>),
     broker   |-> Passed(<<"A", "L", "P", "A", "C", "A">>)],
    [brokerId |-> Str(<<"A", "l", "p", "a", "c", "a">>),
     broker   |-> Passed(<<"A", "L", "P", "A", "C", "A">>)],
    [brokerId |-> Str(<<"i", "b", "k", "r">>), broker |-> Omitted],
    [brokerId |-> Str(<<"I", "b", "K", "r">>), broker |-> Omitted],
    [brokerId |-> Str(<<" ", "i", "b", "k", "r">>),
     broker   |-> Passed(<<" ", "I", "B", "K", "R">>)],
    [brokerId |-> Str(<<"S", "C", "H", "W", "A", "B">>), broker |-> Omitted],
    [brokerId |-> Str(<<"s", "c", "h", "w", "a", "b">>), broker |-> Omitted],
    [brokerId |-> Str(<<"i", "n", "t", "e", "r", "a", "c", "t", "i", "v", "e",
                        "_", "b", "r", "o", "k", "e", "r", "s">>),
     broker   |-> Omitted],
    [brokerId |-> Str(<<"U+0131", "b", "k", "r">>), broker |-> Omitted],
    [brokerId |-> Str(<<"U+017F", "c", "h", "w", "a", "b">>),
     broker   |-> Omitted],
    [brokerId |-> Str(<<"U+FB01", "d", "e", "l", "i", "t", "y">>),
     broker   |-> Passed(<<"F", "I", "D", "E", "L", "I", "T", "Y">>)] }

\* C23: the login call of createLink gets no broker parameter when brokerId
\* is absent, empty or blank, or when its upper-case form is IBKR,
\* INTERACTIVE_BROKERS or SCHWAB (in any letter case of the input);
\* otherwise it gets the upper-case form of brokerId. For every argument
\* explored the login call got what BrokerCases lists for it; a parameter
\* that was passed is never one of the special brokers, and none is passed
\* for an absent argument.
C23_BrokerParameter ==
  \A p \in Procs :
    LoggedIn(p) =>
      /\ \E c \in BrokerCases :
           c.brokerId = loc[p].brokerId /\ c.broker = loc[p].broker
      /\ loc[p].broker.passed =>
           /\ loc[p].brokerId.k = "string"
           /\ loc[p].broker.broker \notin SpecialBrokers
           /\ loc[p].broker.broker # << >>

\* C23 witness: a broker in mixed case was passed in upper case
C23_Witness ==
  \E p \in Procs :
    /\ LoggedIn(p)
    /\ loc[p].brokerId.s = <<"A", "l", "p", "a", "c", "a">>
    /\ loc[p].broker.passed
    /\ loc[p].broker.broker = <<"A", "L", "P", "A", "C", "A">>

\* a broker spelled with the dotless i had its parameter omitted, its
\* upper-case form being IBKR
C23_WitnessDotless ==
  \E p \in Procs :
    /\ LoggedIn(p)
    /\ loc[p].brokerId.s = <<"U+0131", "b", "k", "r">>
    /\ ~loc[p].broker.passed

\* a broker spelled with a ligature was passed with two letters in its place
C23_WitnessLigature ==
  \E p \in Procs :
    /\ LoggedIn(p)
    /\ loc[p].brokerId.s = <<"U+FB01", "d", "e", "l", "i", "t", "y">>
    /\ loc[p].broker = Passed(<<"F", "I", "D", "E", "L", "I", "T", "Y">>)

\* a special broker in mixed case had its parameter omitted
C23_WitnessSpecial ==
  \E p \in Procs :
    /\ LoggedIn(p)
    /\ loc[p].brokerId.s = <<"I", "b", "K", "r">>
    /\ ~loc[p].broker.passed

\* the remote login calls made so far in the call of p
Logins(p) ==
  Len(SelectSeq(loc[p].remotes, LAMBDA s : s = "login"))

\* C24 (as claimed): one top-level createLink call re-invokes itself at most
\* once and makes at most two remote login calls, whatever the remote
\* answers.  The re-invocation is the same function with the same catch, so
\* a remote that answers 'not registered' to every login is asked again and
\* again.
C24_RetriesAtMostOnce ==
  \A p \in Procs :
    loc[p].op = "createLink" => loc[p].depth <= 1 /\ Logins(p) <= 2

\* a remote register call made in the call of p met the 'already exist'
\* conflict (the modified-id registration follows only that conflict)
MetConflict(p) ==
  \E k \in 1..Len(loc[p].path) : loc[p].path[k] = "modified_id"

\* the steps named s come exactly in this order at the end of the steps
EndsWith(steps, s) ==
  /\ Len(steps) >= Len(s)
  /\ SubSeq(steps, Len(steps) - Len(s) + 1, Len(steps)) = s

\* C25 (as claimed): when the registration that createLink attempts after a
\* failed login meets the 'already exists' conflict, createLink deletes the
\* remote identity, registers the same user id again, stores the new secret
\* as the active secret and then retries the login.  In the code that
\* conflict is taken by registerSnapTradeUser itself (modified id, then fake
\* secret), which returns normally: no delete is issued.
C25_ConflictDeletesThenRecreates ==
  \A p \in Procs :
    /\ loc[p].op = "createLink" /\ pc[p] = "cl_retry"
    /\ loc[p].entered /\ MetConflict(p)
    => /\ EndsWith(loc[p].remotes, <<"login", "delete", "reregister", "store">>)
       /\ row.active /\ row.secret.k = "real"
       /\ Authentic(UserId, row.secret)

\* with a 400 error other than that conflict the order is: login, delete,
\* re-register, store, and only then the next login
C25_DeleteBeforeReregister ==
  \A p \in Procs :
    loc[p].op = "createLink" =>
      \A k \in 1..Len(loc[p].remotes) :
        /\ loc[p].remotes[k] = "reregister" =>
             k > 2 /\ loc[p].remotes[k - 1] = "delete"
                   /\ loc[p].remotes[k - 2] = "login"
        /\ loc[p].remotes[k] = "store" =>
             k > 1 /\ loc[p].remotes[k - 1] = "reregister"
        /\ loc[p].remotes[k] = "login" /\ k > 1 =>
             loc[p].remotes[k - 1] \in {"login", "store"}

\* the delete-and-recreate branch was taken and the login retried
C25_RecreateReached ==
  \E p \in Procs :
    /\ loc[p].op = "createLink"
    /\ Len(loc[p].remotes) >= 5
    /\ SubSeq(loc[p].remotes, 1, 5)
         = <<"login", "delete", "reregister", "store", "login">>

\* the error details createLink can meet: those of the login, of
\* getUserSecret and of the registration it attempts
LinkErrorDetails ==
  LET base == {"Request failed",
               "Failed to generate connection portal URL - no data returned",
               "Failed to generate connection portal URL - no redirect URI",
               "Database error when retrieving user secret",
               "Failed to register user with SnapTrade - no data returned",
               "Request failed with status code 400"}
  IN base \cup {RegisterFailure(m) : m \in base}

\* the call of p made the store update of lines 753-762
LinkUpdated(p) ==
  \E k \in 1..Len(loc[p].remotes) : loc[p].remotes[k] = "update"

\* what C26 says of a finished createLink call
LinkOutcome(p) ==
  IF loc[p].outcome = "returned"
  THEN /\ loc[p].url = "portal"
       /\ loc[p].login = "ok"
       /\ LinkUpdated(p)
  ELSE /\ \E m \in LinkErrorDetails :
            loc[p].error = "Failed to link account: " \o m
       /\ loc[p].url = "none"
       /\ ~LinkUpdated(p)
       /\ loc[p].login \in {"nodata", "nouri"} =>
            loc[p].error \in
              { "Failed to link account: Failed to generate connection portal URL - no data returned",
                "Failed to link account: Failed to generate connection portal URL - no redirect URI" }

\* C26 (amended): with the broker client initialized, createLink either
\* returns the redirect URL the remote login supplied (and has recorded the
\* attempt in the row) or raises an error whose message is 'Failed to link
\* account: ' followed by the error detail; it never returns without a URL,
\* and a login reply without data or without redirect URL leaves the
\* metadata un-updated.  Without the client it raises 'SnapTrade SDK not
\* initialized', unwrapped.
C26_UrlOrLinkError ==
  \A p \in Procs :
    Done(p, "createLink") =>
      IF sdk
      THEN LinkOutcome(p)
      ELSE /\ loc[p].outcome = "threw"
           /\ loc[p].error = "SnapTrade SDK not initialized"
           /\ row = loc[p].startRow

\* C26 witness: the login reply had no redirect URL: the wrapped error is
\* raised and the row is as it was when the login was made
C26_Witness ==
  \E p \in Procs :
    /\ Done(p, "createLink") /\ sdk
    /\ loc[p].login = "nouri"
    /\ loc[p].outcome = "threw"
    /\ loc[p].error =
         "Failed to link account: Failed to generate connection portal URL - no redirect URI"
    /\ ~LinkUpdated(p)
    /\ row.data.connection_started = NoTime

\* C26 (as claimed): every finished createLink call returned the URL or
\* raised an error beginning with 'Failed to link account:'
C26_AlwaysUrlOrLinkError ==
  \A p \in Procs : Done(p, "createLink") => LinkOutcome(p)

\* the call of p is a broker operation that needed the client: any operation
\* but a getSecret that returned the stored secret without registering
NeededClient(p) ==
  /\ pc[p] = "done"
  /\ loc[p].op \in {"registerUser", "getSecret", "fetchHoldings",
                    "createLink", "deleteConnection", "handleCallback",
                    "deleteUser"}
  /\ loc[p].op = "getSecret" => loc[p].entered

\* C27 (as claimed): with the broker client not initialized every broker
\* operation, getSecret when it has to register included, fails with the
\* 'not initialized' error before any remote call and any store write.
\* getUserSecret catches the error of the registration it attempts and stores
\* and returns an emergency fallback secret instead.
C27_UninitializedFailsFast ==
  \A p \in Procs :
    NeededClient(p) /\ ~sdk =>
      /\ loc[p].outcome = "threw"
      /\ loc[p].error = "SnapTrade SDK not initialized"
      /\ loc[p].regs = 0 /\ loc[p].remotes = << >>
      /\ loc[p].writes = 0
      /\ row = loc[p].startRow

\* the operations other than getSecret do fail fast
C27_OthersFailFast ==
  \A p \in Procs :
    NeededClient(p) /\ ~sdk /\ loc[p].op # "getSecret" =>
      /\ loc[p].outcome = "threw"
      /\ loc[p].error = "SnapTrade SDK not initialized"
      /\ loc[p].regs = 0 /\ loc[p].remotes = << >>
      /\ loc[p].writes = 0
      /\ row = loc[p].startRow

----------------------------------------------------------------------------
(* The identity a secret is sent with *)

\* the labels at which a remote call carrying {userId, userSecret} is about
\* to be made by fetchSnapTradeHoldings
CredentialCalls == {"fh_list", "fh_positions", "fh_balances"}

\* C31 (as claimed): every remote call that carries credentials is made with
\* a (remote user id, secret) pair the remote issued together in one register
\* reply, a modified-id registration included. The secret of a modified-id
\* registration is stored under, and sent with, the original user id.
C31_SecretSentWithItsIdentity ==
  \A p \in Procs :
    pc[p] \in CredentialCalls => Authentic(UserId, loc[p].userSecret)

\* the same for the secrets the remote did issue: a secret issued to the
\* modified id is sent with the original id
C31_IssuedSecretSentWithItsIdentity ==
  \A p \in Procs :
    /\ pc[p] \in CredentialCalls
    /\ \E u \in remote : u.secret = loc[p].userSecret
    => Authentic(UserId, loc[p].userSecret)

----------------------------------------------------------------------------
(* Two requests of one user in progress at once *)

\* registerUser or getSecret of p has returned a secret
ReturnedSecret(p) == DoneRegistering(p) /\ loc[p].outcome = "returned"

\* p and q were in progress at the same time and both have returned
BothCompleted(p, q) ==
  /\ p # q /\ ReturnedSecret(p) /\ ReturnedSecret(q)
  /\ loc[p].overlap \/ loc[q].overlap

\* C32 (as claimed): for every interleaving of two concurrent
\* registerUser/getSecret calls of one user that both complete, the secret
\* each call returned is the secret the row holds once both have completed.
\* Nothing serializes the read-modify-write of the row: each call returns the
\* secret it obtained or synthesized itself, and the row keeps the last write.
C32_NoLostUpdate ==
  \A p, q \in Procs :
    BothCompleted(p, q) =>
      loc[p].result = row.secret /\ loc[q].result = row.secret

----------------------------------------------------------------------------
(* Data fetches after a deregistration *)

\* the row was marked inactive by the deregister endpoint (lines 147-159) or
\* by deleteSnapTradeConnection (lines 614-625)
Deregistered(r) ==
  /\ r.present /\ ~r.active
  /\ r.data.deleted_at # NoTime \/ r.data.disconnected_at # NoTime

\* C33 (as claimed): a data fetch does not undo a deregistration: when the
\* row is inactive after the deregister endpoint or deleteConnection, a
\* following fetchAccounts or fetchHoldings leaves it inactive and registers
\* no new remote identity. Both fetches go through getUserSecret, which
\* registers anew whenever the row it reads is not active.
C33_FetchKeepsDeregistered ==
  \A p \in Procs :
    /\ loc[p].op = "sync" /\ pc[p] # "idle"
    /\ Deregistered(loc[p].startRow)
    => /\ ~row.active
       /\ loc[p].regs = 0

----------------------------------------------------------------------------
(* getUserSecret on an inactive row *)

\* getSecret of p started on a row that had been deactivated and has returned
ReturnedOnInactive(p) ==
  /\ Done(p, "getSecret") /\ loc[p].outcome = "returned"
  /\ loc[p].startRow.present /\ ~loc[p].startRow.active

\* the stored secret of an inactive row is never returned as it is stored:
\* what is returned was issued or synthesized in the call, and one the
\* remote issued differs from the secret the row held
C34_ReturnedSecretMadeInCall ==
  \A p \in Procs :
    ReturnedOnInactive(p) =>
      /\ loc[p].entered
      /\ \/ loc[p].result = loc[p].response /\ loc[p].regs >= 1
         \/ Synthesized(loc[p].result) /\ loc[p].writes >= 1
      /\ ~Synthesized(loc[p].result) =>
           loc[p].result # loc[p].startRow.secret

\* getSecret has returned on a row that the deregister endpoint or
\* deleteConnection had deactivated with a real secret in it
C34_Witness ==
  \E p \in Procs :
    /\ ReturnedOnInactive(p) /\ Deregistered(loc[p].startRow)
    /\ loc[p].startRow.secret.k = "real"
    /\ loc[p].result.k = "real"

\* the same on a row a failed registration had deactivated
C34_WitnessFailed ==
  \E p \in Procs :
    /\ ReturnedOnInactive(p)
    /\ loc[p].startRow.data.registration_failed_at # NoTime

----------------------------------------------------------------------------
(* handleSnapTradeCallback that fails part-way *)

\* handleCallback of p is over and the positions or balances call of one of
\* its accounts raised
AccountCallRaised(p) ==
  /\ Done(p, "handleCallback")
  /\ \/ \E k \in 1..Len(loc[p].pos) : loc[p].pos[k] = "fail"
     \/ \E k \in 1..Len(loc[p].bal) : loc[p].bal[k] = "fail"

\* C35 (as claimed): handleCallback is all-or-nothing with respect to Asset
\* rows: if the positions or balances call of some account raises, the call
\* fails and no Asset row inserted earlier in the same call remains in the
\* asset store. The inserts are separate statements and the catch of lines
\* 1260-1263 only rethrows.
C35_CallbackAllOrNothing ==
  \A p \in Procs :
    AccountCallRaised(p) =>
      /\ loc[p].outcome = "threw"
      /\ assets = SubSeq(assets, 1, loc[p].startAssets)

\* the call does fail when the positions or balances call raises
C35_RemoteFailureRaises ==
  \A p \in Procs : AccountCallRaised(p) => loc[p].outcome = "threw"

----------------------------------------------------------------------------
(* The holdings a sync reports *)

\* C36 (as claimed): a sync response with syncStatus 'success' never carries
\* an error sentinel holding: whenever the holdings contain an entry with
\* isError = true, syncStatus is 'partial' or 'failed'. fetchSnapTradeHoldings
\* catches its own failures and returns the sentinel, so the endpoint's catch
\* never sees them.
C36_SuccessHasNoErrorHolding ==
  \A p \in Procs :
    /\ Answered(p, {"sync"})
    /\ \E k \in 1..Len(loc[p].holdings) : loc[p].holdings[k].isError
    => loc[p].syncStatus \in {"partial", "failed"}

----------------------------------------------------------------------------
(* The items fetchSnapTradeHoldings and handleSnapTradeCallback select *)

\* the (account id, symbol) pairs of a list of holdings
HoldingPairs(hs) == { <<hs[k].accountId, hs[k].symbol>> : k \in 1..Len(hs) }

\* the (account id, symbol) pairs of a list of Asset rows
AssetPairs(rows) ==
  { <<rows[k].account_id, rows[k].symbol>> : k \in 1..Len(rows) }

\* fetchHoldings of p has returned and every remote call of it succeeded
AllSucceeded(p) ==
  /\ Fetched(p) /\ loc[p].listed = "ok"
  /\ Len(loc[p].pos) = Len(loc[p].accounts)
  /\ Len(loc[p].bal) = Len(loc[p].accounts)
  /\ \A j \in 1..Len(loc[p].accounts) :
       loc[p].pos[j] = "ok" /\ loc[p].bal[j] = "ok"

\* C37 (as claimed): fetchHoldings and handleCallback select the same items
\* from the same remote data: when all remote calls succeed, the (account id,
\* symbol) pairs of the Asset rows handleCallback inserts for the accounts
\* equal those of the holdings fetchHoldings returns, for cash balances in
\* particular. handleCallback also takes every positive balance of an
\* Interactive Brokers account as cash; fetchHoldings takes only balances
\* flagged cash.
C37_SameItemsSelected ==
  \A p \in Procs :
    AllSucceeded(p) =>
      HoldingPairs(loc[p].holdings) = AssetPairs(RunRows(loc[p].accounts))

\* the positions that have a symbol are selected by both, and every cash
\* holding has its Asset row
C37_SamePositionsSelected ==
  \A p \in Procs :
    AllSucceeded(p) =>
      /\ \A x \in HoldingPairs(loc[p].holdings) :
           x[2] # "" => x \in AssetPairs(RunRows(loc[p].accounts))
      /\ \A x \in AssetPairs(RunRows(loc[p].accounts)) :
           x[2] # "CASH" => x \in HoldingPairs(loc[p].holdings)

----------------------------------------------------------------------------
(* Whom the register and deregister endpoints act for *)

\* the register or the deregister endpoint has answered a logged-in caller
\* who asked for the userId of another user
AnsweredOther(p) ==
  /\ Answered(p, {"registerEndpoint", "deregister"})
  /\ loc[p].given /\ loc[p].auth = "other"

\* the value v of a response field is a secret
IsSecret(v) == DOMAIN v = DOMAIN NoSecret /\ v # NoSecret

\* C38: the register and deregister endpoints act only for the authenticated
\* caller's own id: when the authenticated user's id differs from the
\* requested userId the answer is 403 and no registration, no remote delete
\* and no change of the connection row takes place; and the response of the
\* register endpoint never contains the user's secret.
C38_OwnIdOnly ==
  \A p \in Procs :
    /\ AnsweredOther(p) =>
         /\ loc[p].status = 403
         /\ loc[p].regs = 0 /\ loc[p].remotes = << >> /\ loc[p].writes = 0
         /\ row = loc[p].startRow
    /\ Answered(p, {"registerEndpoint"}) =>
         \A f \in DOMAIN loc[p].body :
           ~IsSecret(loc[p].body[f])

\* a caller asked to deregister another user whose row is active
C38_Witness ==
  \E p \in Procs :
    /\ AnsweredOther(p) /\ loc[p].op = "deregister"
    /\ row.present /\ row.active

\* the register endpoint has registered its caller and answered
C38_WitnessRegistered ==
  \E p \in Procs :
    /\ Answered(p, {"registerEndpoint"}) /\ loc[p].status = 200
    /\ loc[p].userSecret.k = "real" /\ loc[p].body.userId = UserId

\* a caller asked to register another user
C38_WitnessRegisterOther ==
  \E p \in Procs : AnsweredOther(p) /\ loc[p].op = "registerEndpoint"

----------------------------------------------------------------------------
(* deleteSnapTradeConnection and the account it is asked to disconnect *)

\* deleteConnection of p has listed the accounts and is over
Listed(p) == Done(p, "deleteConnection") /\ loc[p].listed = "ok"

\* an account with the given authorizationId was found
Matched(p) == loc[p].accounts # << >>

\* the removal or the account deletion of the call of p failed
RemovalFailed(p) ==
  \E k \in 1..Len(loc[p].remotes) :
    loc[p].remotes[k] \in {"remove_fail", "delete_account_fail"}

\* with a matching account the row ends inactive, with the metadata read
\* before the update plus the disconnect time and the authorization id,
\* whether or not the remote removal and deletion failed
DeactivatedByCall(p) ==
  /\ loc[p].outcome = "returned"
     \/ loc[p].error = "Database error: " \o "Request failed"
  /\ loc[p].outcome = "returned" =>
       /\ row.present /\ ~row.active
       /\ row.data.disconnected_at # NoTime
       /\ row.data = [loc[p].existingBrokerData EXCEPT
                        !.disconnected_at  = row.data.disconnected_at,
                        !.authorization_id = loc[p].authorizationId]

\* C39 (as claimed): in deleteConnection, when an account with the given
\* authorizationId exists, a failure of the remote authorization removal or
\* account deletion never prevents the deactivation: on return the row is
\* inactive and keeps its previous metadata plus the disconnect time and the
\* authorization id; when no account matches, it returns true and the row's
\* active flag is left as it was. The getUserSecret call at the start of
\* deleteConnection registers anew for an inactive or missing row and leaves
\* it active, so with no matching account the flag is not as it was.
C39_DeleteConnection ==
  \A p \in Procs :
    Listed(p) =>
      IF Matched(p)
      THEN DeactivatedByCall(p)
      ELSE /\ loc[p].outcome = "returned"
           /\ loc[p].startRow.present =>
                row.active = loc[p].startRow.active

\* the part of C39 about the matching account holds
C39_FailuresDoNotPreventDeactivation ==
  \A p \in Procs : Listed(p) /\ Matched(p) => DeactivatedByCall(p)

\* with no matching account the call returns true straight from the listing
\* and writes nothing after getUserSecret has returned; the row is then
\* active (getUserSecret returned the stored secret of an active row, or
\* registered anew)
C39_NoMatchDeactivatesNothing ==
  /\ [][ \A p \in Procs :
            /\ pc[p] = "dc_list"
            /\ loc'[p].listed = "ok" /\ loc'[p].accounts = << >>
            => /\ pc'[p] = "done" /\ loc'[p].outcome = "returned"
               /\ row' = row ]_vars
  /\ [](\A p \in Procs :
          Listed(p) /\ ~Matched(p) => row.present /\ row.active)

\* a call whose removal and account deletion both failed has returned
C39_FailuresReached ==
  \E p \in Procs :
    /\ Listed(p) /\ Matched(p) /\ loc[p].outcome = "returned"
    /\ \E k \in 1..Len(loc[p].remotes) : loc[p].remotes[k] = "remove_fail"
    /\ RemovalFailed(p) /\ ~row.active

====
